---- MODULE Spec2Model ----
(***************************************************************************)
(* Model of teleparser's tblob: the signature-dispatched decoder of        *)
(* Telegram TL blobs (src/teleparser/tblob.py), built on construct 2.10.68 *)
(* (src/setup.py:17).                                                      *)
(*                                                                         *)
(* A 32-bit unsigned value does not fit a TLC integer, so every Int32ul    *)
(* and Int64ul value is kept as its little-endian byte sequence (the       *)
(* bijective image of the integer); W(a, b, c, d) writes the word          *)
(* 0xaabbccdd that way.                                                    *)
(***************************************************************************)
EXTENDS Integers, Sequences, FiniteSets, TLC

(* ------------------------------------------------------------------ *)
(* Bytes and words                                                      *)
(* ------------------------------------------------------------------ *)

W(a, b, c, d) == <<d, c, b, a>>

Slice(data, from, n) == [i \in 1..n |-> data[from + i]]

Rest(data, pos) == Slice(data, pos, Len(data) - pos)

(* data[:n] *)
Take(data, n) == Slice(data, 0, IF n < Len(data) THEN n ELSE Len(data))

RECURSIVE Pow2(_)
Pow2(k) == IF k = 0 THEN 1 ELSE 2 * Pow2(k - 1)

(* bit k (0..31) of a little-endian word *)
BitOfWord(w, k) == (w[(k \div 8) + 1] \div Pow2(k % 8)) % 2

(* bit k (0..30) of a mask written as a number *)
BitOfMask(m, k) == (m \div Pow2(k)) % 2

(* (obj & value == value) of FlagsEnum._decode, value < 2^31 *)
MaskSet(w, m) == \A k \in 0..30 : BitOfMask(m, k) = 1 => BitOfWord(w, k) = 1

(* this._pl >> 8 of a 4-byte little-endian word *)
ShiftRight8(w) == w[2] + 256 * w[3] + 65536 * w[4]

(* the number a count word denotes, for words below 2^31 *)
WordToNat(w) == w[1] + 256 * w[2] + 65536 * w[3] + 16777216 * w[4]

ZeroWord == W(0, 0, 0, 0)

(* int.from_bytes(data[:4], "little"): up to 4 bytes, zero-extended *)
from_bytes_little(data) ==
    [i \in 1..4 |-> IF i <= Len(data) THEN data[i] ELSE 0]

(* ------------------------------------------------------------------ *)
(* Decoded values (construct Containers) and diagnostics               *)
(* ------------------------------------------------------------------ *)

NoneV == [t |-> "none", w |-> <<>>, c |-> "", s |-> <<>>]
IntV(w) == [t |-> "int", w |-> w, c |-> "", s |-> <<>>]
BytesV(w) == [t |-> "bytes", w |-> w, c |-> "", s |-> <<>>]
TextV(cps) == [t |-> "text", w |-> cps, c |-> "", s |-> <<>>]
StrV(c) == [t |-> "str", w |-> <<>>, c |-> c, s |-> <<>>]
BoolV(b) == [t |-> "bool", w |-> <<>>, c |-> IF b THEN "True" ELSE "False", s |-> <<>>]
StructV(entries) == [t |-> "struct", w |-> <<>>, c |-> "", s |-> entries]
ArrayV(entries) == [t |-> "array", w |-> <<>>, c |-> "", s |-> entries]
FlagsV(w, entries) == [t |-> "flags", w |-> w, c |-> "", s |-> entries]

Entry(name, val) == [name |-> name, val |-> val]

Has(entries, name) == \E i \in 1..Len(entries) : entries[i].name = name

(* the value of the last entry of that name; None when absent *)
Get(entries, name) ==
    IF Has(entries, name)
    THEN LET i == CHOOSE j \in 1..Len(entries) :
                      /\ entries[j].name = name
                      /\ \A k \in (j + 1)..Len(entries) : entries[k].name # name
         IN entries[i].val
    ELSE NoneV

LogEntry(level, msg, name, sig, a, b, bytes) ==
    [level |-> level, msg |-> msg, name |-> name, sig |-> sig,
     a |-> a, b |-> b, bytes |-> bytes]

(* result of parsing one construct: new position, error ("" when none),
   the diagnostics so far, the value, and the stream positions seen before
   and after each field decoded inside it *)
R(pos, err, log, val) ==
    [pos |-> pos, err |-> err, log |-> log, val |-> val, tells |-> <<>>]

(* the stream position before or after the subcon of a Struct or Array, and
   after it the value the subcon returned *)
Tell(subcon, at, pos, val) ==
    [name |-> subcon.name, k |-> subcon.k, at |-> at, pos |-> pos, val |-> val]

Fail(pos, err, log) == R(pos, err, log, NoneV)

(* ------------------------------------------------------------------ *)
(* UTF-8 (bytes.decode("utf-8"), strict)                                *)
(* ------------------------------------------------------------------ *)

IsCont(b) == b >= 128 /\ b <= 191

(* length of the well-formed UTF-8 sequence starting at bs[i]; 0 if none *)
Utf8SeqLen(bs, i) ==
    LET b == bs[i]
        n == Len(bs) - i + 1
        c(k) == bs[i + k]
    IN  IF b < 128 THEN 1
        ELSE IF b >= 194 /\ b <= 223
             THEN IF n >= 2 /\ IsCont(c(1)) THEN 2 ELSE 0
        ELSE IF b >= 224 /\ b <= 239
             THEN IF /\ n >= 3
                     /\ IsCont(c(1)) /\ IsCont(c(2))
                     /\ (b = 224 => c(1) >= 160)
                     /\ (b = 237 => c(1) <= 159)
                  THEN 3 ELSE 0
        ELSE IF b >= 240 /\ b <= 244
             THEN IF /\ n >= 4
                     /\ IsCont(c(1)) /\ IsCont(c(2)) /\ IsCont(c(3))
                     /\ (b = 240 => c(1) >= 144)
                     /\ (b = 244 => c(1) <= 143)
                  THEN 4 ELSE 0
        ELSE 0

Utf8CodePoint(bs, i, n) ==
    IF n = 1 THEN bs[i]
    ELSE IF n = 2 THEN (bs[i] - 192) * 64 + (bs[i + 1] - 128)
    ELSE IF n = 3 THEN (bs[i] - 224) * 4096 + (bs[i + 1] - 128) * 64 + (bs[i + 2] - 128)
    ELSE (bs[i] - 240) * 262144 + (bs[i + 1] - 128) * 4096
         + (bs[i + 2] - 128) * 64 + (bs[i + 3] - 128)

(* whether bs splits into well-formed sequences: every byte that is not a
   continuation byte leads one, and the byte after it leads the next *)
IsUtf8(bs) ==
    /\ (Len(bs) > 0 => ~IsCont(bs[1]))
    /\ \A i \in 1..Len(bs) :
          ~IsCont(bs[i]) =>
              LET n == Utf8SeqLen(bs, i)
              IN  n > 0 /\ (i + n > Len(bs) \/ ~IsCont(bs[i + n]))

(* the code points of the well-formed bs[lo..hi], in order *)
RECURSIVE Utf8CodePoints(_, _, _)
Utf8CodePoints(bs, lo, hi) ==
    IF lo > hi THEN <<>>
    ELSE IF lo = hi
         THEN IF IsCont(bs[lo]) THEN <<>>
              ELSE <<Utf8CodePoint(bs, lo, Utf8SeqLen(bs, lo))>>
    ELSE LET mid == (lo + hi) \div 2
         IN  Utf8CodePoints(bs, lo, mid) \o Utf8CodePoints(bs, mid + 1, hi)

(* the code points of bs, or <<-1>> when bs is not UTF-8 *)
Utf8Decode(bs) == IF IsUtf8(bs) THEN Utf8CodePoints(bs, 1, Len(bs)) ELSE <<-1>>

(* decode_tstring: the text, or the raw bytes and an error line *)
decode_tstring(binarray) ==
    LET Decoded(cps) ==
            IF cps = <<-1>>
            THEN [val |-> BytesV(binarray),
                  log |-> <<LogEntry("error", "unable to decode string", "",
                                     ZeroWord, 0, 0, binarray)>>]
            ELSE [val |-> TextV(cps), log |-> <<>>]
    IN  Decoded(Utf8Decode(binarray))

(* ------------------------------------------------------------------ *)
(* Stream reads                                                         *)
(* ------------------------------------------------------------------ *)

NatV(n) == [t |-> "nat", w |-> <<n>>, c |-> "", s |-> <<>>]

(* stream_read: n bytes from pos, StreamError when fewer remain *)
ReadBytes(data, pos, n, log) ==
    IF pos + n > Len(data)
    THEN Fail(pos, "StreamError", log)
    ELSE R(pos + n, "", log, BytesV(Slice(data, pos, n)))

(* Int32ul / Int64ul / Byte: a fixed-width little-endian integer *)
ReadInt(data, pos, n, log) ==
    LET AsInt(r) == IF r.err # "" THEN r ELSE R(r.pos, "", log, IntV(r.val.w))
    IN  AsInt(ReadBytes(data, pos, n, log))

(* a Peek that seeks to one byte before the position it started from *)
PeekIntOneShort(data, pos, n, log) ==
    LET Back == IF pos > 0 THEN pos - 1 ELSE 0
        Rewind(r) == IF r.err # "" THEN R(Back, "", log, NoneV)
                     ELSE R(Back, "", log, r.val)
    IN  Rewind(ReadInt(data, pos, n, log))

(* Peek(subcon): the value without advancing; None when the read fails *)
PeekInt(data, pos, n, log) ==
    LET Rewind(r) == IF r.err # "" THEN R(pos, "", log, NoneV) ELSE R(pos, "", log, r.val)
    IN  Rewind(ReadInt(data, pos, n, log))

(* mutant: the word is read but not compared with the constant *)
ConstIntUnchecked(value, data, pos, log) == ReadInt(data, pos, 4, log)

(* Const(value, Int32ul): the word must equal the constant *)
ConstInt(value, data, pos, log) ==
    LET Validate(r) ==
            IF r.err # "" THEN r
            ELSE IF r.val.w # value THEN Fail(r.pos, "ConstError", log)
            ELSE r
    IN  Validate(ReadInt(data, pos, 4, log))

(* a Padding that checks the bytes are there but leaves the stream before
   them *)
PaddingNotConsumed(data, pos, n, log) ==
    LET Skip(r) == IF r.err # "" THEN r ELSE R(pos, "", log, NoneV)
    IN  Skip(ReadBytes(data, pos, n, log))

(* Padding(n) *)
PaddingRead(data, pos, n, log) ==
    LET Skip(r) == IF r.err # "" THEN r ELSE R(r.pos, "", log, NoneV)
    IN  Skip(ReadBytes(data, pos, n, log))

(* Terminated: fails unless the stream is at its end *)
TerminatedCheck(data, pos, log) ==
    IF pos < Len(data) THEN Fail(pos, "TerminatedError", log)
    ELSE R(pos, "", log, NoneV)

(* GreedyBytes: everything that is left *)
GreedyRead(data, pos, log) == R(Len(data), "", log, BytesV(Rest(data, pos)))

(* ------------------------------------------------------------------ *)
(* Primitive structures                                                 *)
(* ------------------------------------------------------------------ *)

(* mutant: the long form is padded by the short form's rule *)
TLPaddingShortRule(check, len) ==
    IF ((len + 1) % 4) # 0 THEN 4 - ((len + 1) % 4) ELSE 0

(* the alignment padding both codecs skip after the payload *)
TLPadding(check, len) ==
    IF check >= 254
    THEN IF (len % 4) # 0 THEN 4 - (len % 4) ELSE 0
    ELSE IF ((len + 1) % 4) # 0 THEN 4 - ((len + 1) % 4) ELSE 0

(* the fields _check, _pl, _len/len and the raw payload, shared by
   tstring_struct and tbytes_struct; r.val is the payload *)
TLPrefixAndPayload(data, pos, log) ==
    LET WithValue(chk, pl, len, v) ==
            IF v.err # "" THEN v
            ELSE R(v.pos, "", log,
                   StructV(<<Entry("_check", chk),
                             Entry("_pl", pl.val),
                             Entry("_len", NatV(len)),
                             Entry("_value", v.val)>>))
        WithLen(chk, pl, len) == WithValue(chk, pl, len, ReadBytes(data, pl.pos, len, log))
        WithPl(chk, pl) ==
            IF pl.err # "" THEN pl
            ELSE WithLen(chk, pl, IF chk.w[1] >= 254 THEN ShiftRight8(pl.val.w)
                                  ELSE pl.val.w[1])
        WithCheck(chk) ==
            IF chk = NoneV THEN Fail(pos, "TypeError", log)
            ELSE WithPl(chk, IF chk.w[1] >= 254 THEN ReadInt(data, pos, 4, log)
                             ELSE ReadInt(data, pos, 1, log))
    IN  WithCheck(PeekInt(data, pos, 1, log).val)

(* a string codec that refuses a payload that is not UTF-8, as the
   PaddedString field commented out in the source would *)
tstring_struct_strict(data, pos, log) ==
    LET Checked(p) ==
            IF p.err # "" THEN p
            ELSE IF ~IsUtf8(Get(p.val.s, "_value").w)
                 THEN Fail(p.pos, "StringError", log)
            ELSE R(p.pos, "", log, p.val)
    IN  Checked(TLPrefixAndPayload(data, pos, log))

tstring_struct(data, pos, log) ==
    LET Padded(p, str, pad) ==
            IF pad.err # "" THEN pad
            ELSE R(pad.pos, "", log \o str.log,
                   StructV(<<Entry("_sname", StrV("tstring"))>> \o p.val.s
                           \o <<Entry("string", str.val)>>))
        WithString(p, check, len, str) ==
            Padded(p, str, PaddingRead(data, p.pos, TLPadding(check, len),
                                       log \o str.log))
        WithFields(p) ==
            IF p.err # "" THEN p
            ELSE WithString(p, Get(p.val.s, "_check").w[1], Get(p.val.s, "_len").w[1],
                            decode_tstring(Get(p.val.s, "_value").w))
    IN  WithFields(TLPrefixAndPayload(data, pos, log))

tbytes_struct(data, pos, log) ==
    LET Padded(p, len, pad) ==
            IF pad.err # "" THEN pad
            ELSE R(pad.pos, "", log,
                   StructV(<<Entry("_sname", StrV("tbytes")),
                             Entry("_check", Get(p.val.s, "_check")),
                             Entry("_pl", Get(p.val.s, "_pl")),
                             Entry("len", NatV(len)),
                             Entry("bytes", Get(p.val.s, "_value"))>>))
        WithLen(p, check, len) ==
            Padded(p, len, PaddingRead(data, p.pos, TLPadding(check, len), log))
        WithFields(p) ==
            IF p.err # "" THEN p
            ELSE WithLen(p, Get(p.val.s, "_check").w[1], Get(p.val.s, "_len").w[1])
    IN  WithFields(TLPrefixAndPayload(data, pos, log))

TrueSignature == W(\h99, \h72, \h75, \hB5)
FalseSignature == W(\hBC, \h79, \h97, \h37)

(* mutant: any word other than the two signatures is refused *)
tbool_struct_strict(data, pos, log) ==
    LET Value(sig) ==
            IF sig.err # "" THEN sig
            ELSE IF sig.val.w \notin {FalseSignature, TrueSignature}
                 THEN Fail(sig.pos, "ConstError", log)
            ELSE R(sig.pos, "", log,
                   StructV(<<Entry("sname", StrV("boolean")),
                             Entry("_signature", sig.val),
                             Entry("value",
                                   IF sig.val.w = FalseSignature THEN StrV("false")
                                   ELSE StrV("true"))>>))
    IN  Value(ReadInt(data, pos, 4, log))

tbool_struct(data, pos, log) ==
    LET Value(sig) ==
            IF sig.err # "" THEN sig
            ELSE R(sig.pos, "", log,
                   StructV(<<Entry("sname", StrV("boolean")),
                             Entry("_signature", sig.val),
                             Entry("value",
                                   IF sig.val.w = FalseSignature THEN StrV("false")
                                   ELSE IF sig.val.w = TrueSignature THEN StrV("true")
                                   ELSE StrV("ERROR"))>>))
    IN  Value(ReadInt(data, pos, 4, log))

(* datetime.utcfromtimestamp(epoch).isoformat(), as <<Y, M, D, h, m, s>> *)
utcfromtimestamp(w) ==
    LET Date(era, yoe, doy, mp) ==
            <<yoe + era * 400 + (IF mp >= 10 THEN 1 ELSE 0),
              IF mp < 10 THEN mp + 3 ELSE mp - 9,
              doy - (153 * mp + 2) \div 5 + 1>>
        OfDoy(era, yoe, doy) == Date(era, yoe, doy, (5 * doy + 2) \div 153)
        OfYoe(era, doe, yoe) ==
            OfDoy(era, yoe, doe - (365 * yoe + yoe \div 4 - yoe \div 100))
        OfDoe(era, doe) ==
            OfYoe(era, doe,
                  (doe - doe \div 1460 + doe \div 36524 - doe \div 146096) \div 365)
        OfDays(z) == OfDoe(z \div 146097, z % 146097)
        Time(secs) == <<secs \div 3600, (secs % 3600) \div 60, secs % 60>>
        OfEpoch(hi) ==
            OfDays(hi \div 675 + 719468) \o Time((hi % 675) * 128 + (w[1] % 128))
    IN  OfEpoch((w[1] \div 128) + 2 * w[2] + 512 * w[3] + 131072 * w[4])

ttimestamp_struct(data, pos, log) ==
    LET Dated(epoch) ==
            IF epoch.err # "" THEN epoch
            ELSE R(epoch.pos, "", log,
                   StructV(<<Entry("epoch", epoch.val),
                             Entry("date", [t |-> "date", w |-> utcfromtimestamp(epoch.val.w),
                                            c |-> "", s |-> <<>>])>>))
    IN  Dated(ReadInt(data, pos, 4, log))

(* ------------------------------------------------------------------ *)
(* construct descriptors: a schema is data, decoded by Parse below      *)
(* ------------------------------------------------------------------ *)

name // con == [con EXCEPT !.name = name]

(* A Python dict display, written as the sequence of its key/value pairs in
   source order; dict(display) is the mapping it evaluates to: a key written
   more than once keeps the value written last *)
dict(display) ==
    [key \in {display[i][1] : i \in DOMAIN display} |->
        display[CHOOSE i \in DOMAIN display :
                    /\ display[i][1] = key
                    /\ \A j \in DOMAIN display : display[j][1] = key => j <= i][2]]

Computed(c) == [k |-> "Computed", name |-> "", c |-> c]
Const(value) == [k |-> "Const", name |-> "", value |-> value]
Int32ul == [k |-> "Int", name |-> "", n |-> 4]
Int64ul == [k |-> "Int", name |-> "", n |-> 8]
Peek(subcon) == [k |-> "Peek", name |-> "", n |-> subcon.n]
GreedyBytes == [k |-> "GreedyBytes", name |-> ""]
Terminated == [k |-> "Terminated", name |-> ""]
TString == [k |-> "tstring_struct", name |-> ""]
TBytes == [k |-> "tbytes_struct", name |-> ""]
TBool == [k |-> "tbool_struct", name |-> ""]
TTimestamp == [k |-> "ttimestamp_struct", name |-> ""]
(* FlagsEnum(Int32ul, name=mask, ...): flags is a sequence of <<name, mask>> *)
FlagsEnum(flags) == [k |-> "FlagsEnum", name |-> "", flags |-> flags]
(* If(this.flags.<flag>, subcon) *)
If(flag, subcon) == [k |-> "If", name |-> "", flag |-> flag, subcon |-> subcon]
(* IfThenElse(this.<field>, thensubcon, elsesubcon) *)
IfThenElse(field, thensubcon, elsesubcon) ==
    [k |-> "IfThenElse", name |-> "", field |-> field,
     thensubcon |-> thensubcon, elsesubcon |-> elsesubcon]
Struct(subcons) == [k |-> "Struct", name |-> "", subcons |-> subcons]
(* Array(this.<count>, subcon) *)
Array(count, subcon) == [k |-> "Array", name |-> "", count |-> count, subcon |-> subcon]
(* Switch(this.<key>, cases) with the default case Pass *)
Switch(key, cases) ==
    [k |-> "Switch", name |-> "", key |-> key, cases |-> dict(cases), display |-> cases]
(* LazyBound(lambda: self.<ref>()) *)
LazyBound(ref) == [k |-> "LazyBound", name |-> "", ref |-> ref]
Pass == [k |-> "Pass", name |-> ""]

(* If(this.<field> == n, subcon) *)
IfEq(field, n, subcon) == [k |-> "IfEq", name |-> "", field |-> field, n |-> n,
                           subcon |-> subcon]
(* IfThenElse(this.<path[1]>.<path[2]> != n, thensubcon, elsesubcon) *)
IfThenElseNe(path, n, thensubcon, elsesubcon) ==
    [k |-> "IfThenElseNe", name |-> "", path |-> path, n |-> n,
     thensubcon |-> thensubcon, elsesubcon |-> elsesubcon]
(* "name" / this.<path[1]>.<path[2]> [* factor]: the division of a string by
   a path is an expression object (BinExpr), not a named field *)
BinExpr(name, path, factor) ==
    [k |-> "BinExpr", name |-> "", lhs |-> name, path |-> path, factor |-> factor]

VectorSignature == W(\h1C, \hB5, \hC4, \h15)

(* ------------------------------------------------------------------ *)
(* Schemas (the variants of each slot that the model decodes)           *)
(* ------------------------------------------------------------------ *)

bot_command_struct ==
    Struct(<<"sname" // Computed("bot_command"),
             "signature" // Const(W(\hC2, \h7A, \hC8, \hC7)),
             "command" // TString,
             "description" // TString>>)

bot_info_struct ==
    Struct(<<"sname" // Computed("bot_info"),
             "signature" // Const(W(\h98, \hE8, \h1D, \h3A)),
             "user_id" // Int32ul,
             "description" // TString,
             "_vector_sig" // Const(VectorSignature),
             "bot_commands_num" // Int32ul,
             "bot_commands_array" // Array("bot_commands_num", bot_command_struct)>>)

(* mutant: the title is read from the input as a string *)
chat_empty_struct_title_read ==
    Struct(<<"sname" // Computed("chat_empty"),
             "signature" // Const(W(\h9B, \hA2, \hD8, \h00)),
             "id" // Int32ul,
             "title" // TString>>)

chat_empty_struct ==
    Struct(<<"sname" // Computed("chat_empty"),
             "signature" // Const(W(\h9B, \hA2, \hD8, \h00)),
             "id" // Int32ul,
             "title" // Computed("DELETED")>>)

channel_forbidden_struct ==
    Struct(<<"sname" // Computed("channel_forbidden"),
             "signature" // Const(W(\h28, \h9D, \hA7, \h32)),
             "flags" // FlagsEnum(<<<<"broadcast", 32>>, <<"megagroup", 256>>,
                                    <<"has_expiration", 65536>>>>),
             "id" // Int32ul,
             "access_hash" // Int64ul,
             "title" // TString,
             "util_timestamp" // If("has_expiration", Int32ul)>>)

user_empty_struct ==
    Struct(<<"sname" // Computed("user_empty"),
             "signature" // Const(W(\h20, \h02, \h50, \hBA)),
             "id" // Int32ul>>)

peer_channel_struct ==
    Struct(<<"sname" // Computed("peer_channel"),
             "signature" // Const(W(\hBD, \hDD, \hE5, \h32)),
             "channel_id" // Int32ul>>)

peer_chat_struct ==
    Struct(<<"sname" // Computed("peer_chat"),
             "signature" // Const(W(\hBA, \hD0, \hE5, \hBB)),
             "chat_id" // Int32ul>>)

peer_user_struct ==
    Struct(<<"sname" // Computed("peer_user"),
             "signature" // Const(W(\h9D, \hB1, \hBC, \h6D)),
             "user_id" // Int32ul>>)

peer_structures(name) ==
    LET tag_map == <<<<W(\hBD, \hDD, \hE5, \h32), LazyBound("peer_channel_struct")>>,
                   <<W(\hBA, \hD0, \hE5, \hBB), LazyBound("peer_chat_struct")>>,
                   <<W(\h9D, \hB1, \hBC, \h6D), LazyBound("peer_user_struct")>>>>
    IN  "peer_structures" // Struct(<<"_signature" // Peek(Int32ul),
                                      name // Switch("_signature", tag_map)>>)

message_action_chat_create_struct ==
    Struct(<<"sname" // Computed("message_action_chat_create"),
             "signature" // Const(W(\hA6, \h63, \h8B, \h9A)),
             "title" // TString,
             "vector_sig" // Const(VectorSignature),
             "users_num" // Int32ul,
             "users" // Array("users_num", Int32ul)>>)

message_action_chat_delete_photo_struct ==
    Struct(<<"sname" // Computed("message_action_chat_delete_photo"),
             "signature" // Const(W(\h95, \hE3, \hFB, \hEF))>>)

message_action_chat_edit_title_struct ==
    Struct(<<"sname" // Computed("message_action_chat_edit_title"),
             "signature" // Const(W(\hB5, \hA1, \hCE, \h5A)),
             "title" // TString>>)

message_action_empty_struct ==
    Struct(<<"sname" // Computed("message_action_empty"),
             "signature" // Const(W(\hB6, \hAE, \hF7, \hB0))>>)

message_action_structures(name) ==
    LET tag_map ==
            <<<<W(\h95, \hE3, \hFB, \hEF), LazyBound("message_action_chat_delete_photo_struct")>>,
            <<W(\hA6, \h63, \h8B, \h9A), LazyBound("message_action_chat_create_struct")>>,
            <<W(\hB5, \hA1, \hCE, \h5A), LazyBound("message_action_chat_edit_title_struct")>>,
            <<W(\hB6, \hAE, \hF7, \hB0), LazyBound("message_action_empty_struct")>>>>
    IN  "message_action_structures" // Struct(<<"_signature" // Peek(Int32ul),
                                                name // Switch("_signature", tag_map)>>)

message_entity_italic_struct ==
    Struct(<<"sname" // Computed("message_entity_italic"),
             "signature" // Const(W(\h82, \h6F, \h8B, \h60)),
             "offset" // Int32ul,
             "length" // Int32ul>>)

message_entity_unknown_struct ==
    Struct(<<"sname" // Computed("message_entity_unknown"),
             "signature" // Const(W(\hBB, \h92, \hBA, \h95)),
             "offset" // Int32ul,
             "length" // Int32ul>>)

message_entity_structures(name) ==
    LET tag_map ==
            <<<<W(\h82, \h6F, \h8B, \h60), LazyBound("message_entity_italic_struct")>>,
            <<W(\hBB, \h92, \hBA, \h95), LazyBound("message_entity_unknown_struct")>>>>
    IN  "message_entity_structures" // Struct(<<"_signature" // Peek(Int32ul),
                                                name // Switch("_signature", tag_map)>>)

(* message_empty with the two branches of to_id exchanged *)
message_empty_struct_exchanged ==
    Struct(<<"sname" // Computed("message_empty"),
             "signature" // Const(W(\h83, \hE5, \hDE, \h54)),
             "id" // Int32ul,
             "_extra_signature" // Peek(Int32ul),
             "to_id" // IfThenElse("_extra_signature", Terminated,
                                   peer_structures("to_id"))>>)

message_empty_struct ==
    Struct(<<"sname" // Computed("message_empty"),
             "signature" // Const(W(\h83, \hE5, \hDE, \h54)),
             "id" // Int32ul,
             "_extra_signature" // Peek(Int32ul),
             "to_id" // IfThenElse("_extra_signature", peer_structures("to_id"),
                                   Terminated)>>)

message_fwd_header_layer68_struct ==
    Struct(<<"sname" // Computed("message_fwd_header_layer68"),
             "signature" // Const(W(\hC7, \h86, \hDD, \hCB)),
             "flags" // FlagsEnum(<<<<"has_from_id", 1>>, <<"has_channel_id", 2>>,
                                    <<"has_channel_post", 4>>>>),
             "from_id" // If("has_from_id", Int32ul),
             "date" // TTimestamp,
             "channel_id" // If("has_channel_id", Int32ul),
             "channel_post" // If("has_channel_post", Int32ul)>>)

message_fwd_header_structures(name) ==
    LET tag_map ==
            <<<<W(\hC7, \h86, \hDD, \hCB), LazyBound("message_fwd_header_layer68_struct")>>>>
    IN  "message_fwd_header_structures" // Struct(<<"_signature" // Peek(Int32ul),
                                                    name // Switch("_signature", tag_map)>>)

message_media_empty_struct ==
    Struct(<<"sname" // Computed("message_media_empty"),
             "signature" // Const(W(\h3D, \hED, \h63, \h20))>>)

message_media_unsupported_struct ==
    Struct(<<"sname" // Computed("message_media_unsupported"),
             "signature" // Const(W(\h9F, \h84, \hF4, \h9E))>>)

message_media_structures(name) ==
    LET tag_map ==
            <<<<W(\h3D, \hED, \h63, \h20), LazyBound("message_media_empty_struct")>>,
            <<W(\h9F, \h84, \hF4, \h9E), LazyBound("message_media_unsupported_struct")>>>>
    IN  "message_media_structures" // Struct(<<"_signature" // Peek(Int32ul),
                                               name // Switch("_signature", tag_map)>>)

reply_keyboard_hide_struct ==
    Struct(<<"sname" // Computed("reply_keyboard_hide"),
             "signature" // Const(W(\hA0, \h3E, \h5B, \h85)),
             "flags" // FlagsEnum(<<<<"selective", 4>>>>)>>)

reply_markup_structures(name) ==
    LET tag_map ==
            <<<<W(\hA0, \h3E, \h5B, \h85), LazyBound("reply_keyboard_hide_struct")>>>>
    IN  "reply_markup_structures" // Struct(<<"_signature" // Peek(Int32ul),
                                              name // Switch("_signature", tag_map)>>)

restriction_reason_struct ==
    Struct(<<"sname" // Computed("restriction_reason"),
             "signature" // Const(W(\hD0, \h72, \hAC, \hB4)),
             "platform" // TString,
             "reason" // TString,
             "text" // TString>>)

(* the vector of message entities that the message schemas nest *)
EntitiesVector ==
    Struct(<<"_vector_sig" // Const(VectorSignature),
             "message_entity_num" // Int32ul,
             "message_entity_array"
                 // Array("message_entity_num",
                          message_entity_structures("message_entity"))>>)

message_service_struct ==
    Struct(<<"sname" // Computed("message_service"),
             "signature" // Const(W(\h9E, \h19, \hA1, \hF6)),
             "flags" // FlagsEnum(<<<<"unread", 1>>, <<"out", 2>>,
                                    <<"is_reply_to_msg_id", 8>>, <<"mentioned", 16>>,
                                    <<"media_unread", 32>>, <<"has_from_id", 256>>,
                                    <<"post", 16384>>, <<"silent", 8192>>,
                                    <<"is_grouped_id", 131072>>>>),
             "id" // Int32ul,
             "from_id" // If("has_from_id", Int32ul),
             "to_id" // peer_structures("to_id"),
             "reply_to_msg_id" // If("is_reply_to_msg_id", Int32ul),
             "date" // TTimestamp,
             "action" // message_action_structures("action")>>)

(* from_id_adjusted of message_service_layer48 and message_layer68 *)
from_id_adjusted ==
    IfEq("from_id", 0,
         IfThenElseNe(<<"to_id", "user_id">>, 0,
                      BinExpr("from_id_adjusted", <<"to_id", "user_id">>, 1),
                      BinExpr("from_id_adjusted", <<"to_id", "channel_id">>, -1)))

message_service_layer48_struct ==
    Struct(<<"sname" // Computed("message_service_layer48"),
             "signature" // Const(W(\hC0, \h6B, \h96, \h07)),
             "flags" // FlagsEnum(<<<<"unread", 1>>, <<"out", 2>>, <<"mentioned", 16>>,
                                    <<"media_unread", 32>>, <<"has_from_id", 256>>,
                                    <<"is_via_bot", 2048>>, <<"post", 16384>>,
                                    <<"silent", 8192>>, <<"is_grouped_id", 131072>>>>),
             "id" // Int32ul,
             "from_id" // If("has_from_id", Int32ul),
             "to_id" // peer_structures("to_id"),
             "from_id_adjusted" // from_id_adjusted,
             "date" // TTimestamp,
             "action" // message_action_structures("action")>>)

message_layer68_struct ==
    Struct(<<"sname" // Computed("message_layer68"),
             "signature" // Const(W(\hC0, \h9B, \hE4, \h5F)),
             "flags" // FlagsEnum(<<<<"unread", 1>>, <<"out", 2>>, <<"forwarded", 4>>,
                                    <<"is_reply_to_msg_id", 8>>, <<"mentioned", 16>>,
                                    <<"media_unread", 32>>, <<"has_reply_markup", 64>>,
                                    <<"has_entities", 128>>, <<"has_from_id", 256>>,
                                    <<"has_media", 512>>, <<"has_views", 1024>>,
                                    <<"is_via_bot", 2048>>, <<"post", 16384>>,
                                    <<"is_edited", 32768>>, <<"silent", 8192>>,
                                    <<"with_my_score", 1073741824>>>>),
             "id" // Int32ul,
             "from_id" // If("has_from_id", Int32ul),
             "to_id" // peer_structures("to_id"),
             "from_id_adjusted" // from_id_adjusted,
             "fwd_from" // If("forwarded", message_fwd_header_structures("fwd_from")),
             "via_bot_id" // If("is_via_bot", Int32ul),
             "reply_to_msg_id" // If("is_reply_to_msg_id", Int32ul),
             "date" // TTimestamp,
             "message" // TString,
             "media" // If("has_media", message_media_structures("media")),
             "_media_ttl" // Computed("ignored"),
             "_media_caption_legacy" // Computed("ignored"),
             "reply_markup"
                 // If("has_reply_markup", reply_markup_structures("reply_markup")),
             "entities" // If("has_entities", EntitiesVector),
             "views" // If("has_views", Int32ul),
             "edit_timestamp" // If("is_edited", Int32ul)>>)

message_old5_struct ==
    Struct(<<"sname" // Computed("message_old5"),
             "signature" // Const(W(\hF0, \h78, \h14, \hC8)),
             "flags" // FlagsEnum(<<<<"unread", 1>>, <<"out", 2>>, <<"forwarded", 4>>,
                                    <<"is_reply_to_msg_id", 8>>, <<"mentioned", 16>>,
                                    <<"media_unread", 32>>, <<"has_reply_markup", 64>>,
                                    <<"has_entities", 128>>>>),
             "id" // Int32ul,
             "from_id" // Int32ul,
             "to_id" // peer_structures("to_id"),
             "fwd_from_id" // If("forwarded", "fwd_from_id" // Int32ul),
             "fwd_from_timestamp"
                 // If("forwarded", "fwd_from_timestamp" // TTimestamp),
             "reply_to_msg_id" // If("is_reply_to_msg_id", Int32ul),
             "date" // TTimestamp,
             "message" // TString,
             "media" // If("has_media", message_media_structures("media")),
             "_media_ttl" // Computed("ignored"),
             "_media_caption_legacy" // Computed("ignored"),
             "reply_markup"
                 // If("has_reply_markup", reply_markup_structures("reply_markup")),
             "entities" // If("has_entities", EntitiesVector),
             "views" // If("has_views", Int32ul),
             "edit_timestamp" // If("is_edited", Int32ul)>>)

message_struct ==
    Struct(<<"sname" // Computed("message_struct"),
             "signature" // Const(W(\h45, \h2C, \h0E, \h65)),
             "flags" // FlagsEnum(<<<<"out", 2>>, <<"forwarded", 4>>,
                                    <<"is_reply_to_msg_id", 8>>, <<"mentioned", 16>>,
                                    <<"media_unread", 32>>, <<"has_reply_markup", 64>>,
                                    <<"has_entities", 128>>, <<"has_from_id", 256>>,
                                    <<"has_media", 512>>, <<"has_views", 1024>>,
                                    <<"is_via_bot", 2048>>, <<"silent", 8192>>,
                                    <<"post", 16384>>, <<"is_edited", 32768>>,
                                    <<"has_author", 65536>>, <<"is_grouped_id", 131072>>,
                                    <<"is_from_scheduled", 262144>>,
                                    <<"is_restricted", 4194304>>,
                                    <<"is_legacy", 524288>>,
                                    <<"is_edit_hide", 2097152>>>>),
             "id" // Int32ul,
             "from_id" // If("has_from_id", Int32ul),
             "to_id" // peer_structures("to_id"),
             "fwd_from" // If("forwarded", message_fwd_header_structures("fwd_from")),
             "via_bot_id" // If("is_via_bot", Int32ul),
             "reply_to_msg_id" // If("is_reply_to_msg_id", Int32ul),
             "date" // TTimestamp,
             "message" // TString,
             "media" // If("has_media", message_media_structures("media")),
             "_media_ttl" // Computed("ignored"),
             "_media_caption_legacy" // Computed("ignored"),
             "reply_markup"
                 // If("has_reply_markup", reply_markup_structures("reply_markup")),
             "entities" // If("has_entities", EntitiesVector),
             "views" // If("has_views", Int32ul),
             "edit_timestamp" // If("is_edited", TTimestamp),
             "post_author" // If("has_author", TString),
             "grouped_id" // If("is_grouped_id", Int64ul),
             "restriction_reasons"
                 // If("is_restricted",
                       Struct(<<"_vector_sig" // Const(VectorSignature),
                                "restriction_reasons_num" // Int32ul,
                                "restriction_reasons_array"
                                    // Array("restriction_reasons_num",
                                             restriction_reason_struct)>>)),
             "UNPARSED" // GreedyBytes>>)

file_location_unavailable_struct ==
    Struct(<<"sname" // Computed("file_location_unavailable"),
             "signature" // Const(W(\h7C, \h59, \h6B, \h46)),
             "volume_id" // Int64ul,
             "local_id" // Int32ul,
             "secret" // Int64ul>>)

file_location_to_be_deprecated_struct ==
    Struct(<<"sname" // Computed("file_location_to_be_deprecated"),
             "signature" // Const(W(\hBC, \h7F, \hC6, \hCD)),
             "volume_id" // Int64ul,
             "local_id" // Int32ul>>)

file_location_structures(name) ==
    LET tag_map ==
            <<<<W(\hBC, \h7F, \hC6, \hCD), LazyBound("file_location_to_be_deprecated_struct")>>,
            <<W(\h7C, \h59, \h6B, \h46), LazyBound("file_location_unavailable_struct")>>>>
    IN  "file_location_structures" // Struct(<<"_signature" // Peek(Int32ul),
                                               name // Switch("_signature", tag_map)>>)

chat_photo_empty_struct ==
    Struct(<<"sname" // Computed("chat_photo_empty"),
             "signature" // Const(W(\h37, \hC1, \h01, \h1C))>>)

chat_photo_layer115_struct ==
    Struct(<<"sname" // Computed("chat_photo_layer115"),
             "signature" // Const(W(\h47, \h5C, \hDB, \hD5)),
             "photo_small" // file_location_structures("photo_small"),
             "photo_big" // file_location_structures("photo_big"),
             "dc_id" // Int32ul>>)

chat_photo_structures(name) ==
    LET tag_map ==
            <<<<W(\h37, \hC1, \h01, \h1C), LazyBound("chat_photo_empty_struct")>>,
            <<W(\h47, \h5C, \hDB, \hD5), LazyBound("chat_photo_layer115_struct")>>>>
    IN  "chat_photo_structures" // Struct(<<"_signature" // Peek(Int32ul),
                                            name // Switch("_signature", tag_map)>>)

chat_old2_struct ==
    Struct(<<"sname" // Computed("chat_old2"),
             "signature" // Const(W(\h73, \h12, \hBC, \h48)),
             "flags" // FlagsEnum(<<<<"creator", 1>>, <<"kicked", 2>>, <<"left", 4>>,
                                    <<"deactivated", 32>>>>),
             "id" // Int32ul,
             "title" // TString,
             "photo" // chat_photo_structures("photo"),
             "participants_count" // Int32ul,
             "date" // TTimestamp,
             "version" // Int32ul>>)

(* The animated-emoji variant declares no signature field.                 *)
input_sticker_set_animated_emoji_struct ==
    Struct(<<"sname" // Computed("input_sticker_set_animated_emoji")>>)

input_sticker_set_dice_struct ==
    Struct(<<"sname" // Computed("input_sticker_set_dice"),
             "signature" // Const(W(\hE6, \h7F, \h52, \h0E)),
             "emoticon" // TString>>)

input_sticker_set_empty_struct ==
    Struct(<<"sname" // Computed("input_sticker_set_empty"),
             "signature" // Const(W(\hFF, \hB6, \h2B, \h95))>>)

input_sticker_set_id_struct ==
    Struct(<<"sname" // Computed("input_sticker_set_id"),
             "signature" // Const(W(\h9D, \hE7, \hA2, \h69)),
             "id" // Int64ul,
             "access_hash" // Int64ul>>)

input_sticker_set_short_name_struct ==
    Struct(<<"sname" // Computed("input_sticker_set_short_name"),
             "signature" // Const(W(\h86, \h1C, \hC8, \hA0)),
             "short_name" // TString>>)

input_sticker_set_structures(name) ==
    LET tag_map ==
            <<<<W(\h02, \h87, \h03, \hC8),
                 LazyBound("input_sticker_set_animated_emoji_struct")>>,
            <<W(\hE6, \h7F, \h52, \h0E), LazyBound("input_sticker_set_dice_struct")>>,
            <<W(\hFF, \hB6, \h2B, \h95), LazyBound("input_sticker_set_empty_struct")>>,
            <<W(\h9D, \hE7, \hA2, \h69), LazyBound("input_sticker_set_id_struct")>>,
            <<W(\h86, \h1C, \hC8, \hA0),
                 LazyBound("input_sticker_set_short_name_struct")>>>>
    IN  "input_sticker_set_structures" // Struct(<<"_signature" // Peek(Int32ul),
                                                   name // Switch("_signature", tag_map)>>)

document_attribute_sticker_layer55_struct ==
    Struct(<<"sname" // Computed("document_attribute_sticker_layer55"),
             "signature" // Const(W(\h3A, \h55, \h63, \h02)),
             "alt" // TString,
             "sticker_set" // input_sticker_set_structures("sticker_set")>>)

user_profile_photo_empty_struct ==
    Struct(<<"sname" // Computed("user_profile_photo_empty"),
             "signature" // Const(W(\h4F, \h11, \hBA, \hE1))>>)

user_profile_photo_structures(name) ==
    LET tag_map ==
            <<<<W(\h4F, \h11, \hBA, \hE1), LazyBound("user_profile_photo_empty_struct")>>>>
    IN  "user_profile_photo_structures" // Struct(<<"_signature" // Peek(Int32ul),
                                                    name // Switch("_signature", tag_map)>>)

user_status_recently_struct ==
    Struct(<<"sname" // Computed("user_status_recently"),
             "signature" // Const(W(\hE2, \h6F, \h42, \hF1))>>)

user_status_online_struct ==
    Struct(<<"sname" // Computed("user_status_online"),
             "signature" // Const(W(\hED, \hB9, \h39, \h49)),
             "expires" // Int32ul>>)

user_status_empty_struct ==
    Struct(<<"sname" // Computed("user_status_empty"),
             "signature" // Const(W(\h09, \hD0, \h50, \h49))>>)

user_status_offline_struct ==
    Struct(<<"sname" // Computed("user_status_offline"),
             "signature" // Const(W(\h00, \h8C, \h70, \h3F)),
             "expires" // Int32ul>>)

user_status_structures(name) ==
    LET tag_map ==
            <<<<W(\hE2, \h6F, \h42, \hF1), LazyBound("user_status_recently_struct")>>,
            <<W(\hED, \hB9, \h39, \h49), LazyBound("user_status_online_struct")>>,
            <<W(\h00, \h8C, \h70, \h3F), LazyBound("user_status_offline_struct")>>,
            <<W(\h09, \hD0, \h50, \h49), LazyBound("user_status_empty_struct")>>>>
    IN  "user_status_structures" // Struct(<<"_signature" // Peek(Int32ul),
                                             name // Switch("_signature", tag_map)>>)

user_struct ==
    Struct(<<"sname" // Computed("user_struct"),
             "signature" // Const(W(\h93, \h84, \h58, \hC1)),
             "flags" // FlagsEnum(<<<<"has_access_hash", 1>>, <<"has_first_name", 2>>,
                                    <<"has_last_name", 4>>, <<"has_username", 8>>,
                                    <<"has_phone", 16>>, <<"has_profile_photo", 32>>,
                                    <<"has_status", 64>>, <<"is_self", 1024>>,
                                    <<"is_contact", 2048>>,
                                    <<"is_mutual_contact", 4096>>,
                                    <<"is_deleted", 8192>>, <<"is_bot", 16384>>,
                                    <<"is_bot_chat_history", 32768>>,
                                    <<"is_bot_no_chats", 65536>>,
                                    <<"is_min", 1048576>>, <<"is_verified", 131072>>,
                                    <<"is_bot_inline_geo", 2097152>>,
                                    <<"is_restricted", 262144>>,
                                    <<"is_support", 8388608>>>>),
             "id" // Int32ul,
             "access_hash" // If("has_access_hash", Int64ul),
             "first_name" // If("has_first_name", TString),
             "last_name" // If("has_last_name", TString),
             "username" // If("has_username", TString),
             "phone" // If("has_phone", TString),
             "photo" // If("has_profile_photo", user_profile_photo_structures("photo")),
             "status" // If("has_status", user_status_structures("status")),
             "bot_info_version" // If("is_bot", Int32ul),
             "restrictions"
                 // If("is_restricted",
                       Struct(<<"_vector_sig" // Const(VectorSignature),
                                "restrictions_num" // Int32ul,
                                "restrictions_array"
                                    // Array("restrictions_num",
                                             restriction_reason_struct)>>))>>)

text_empty_struct ==
    Struct(<<"sname" // Computed("text_empty"),
             "signature" // Const(W(\hDC, \h3D, \h82, \h4F))>>)

text_plain_struct ==
    Struct(<<"sname" // Computed("text_plain"),
             "signature" // Const(W(\h74, \h46, \h94, \hE0)),
             "text" // TString>>)

rich_text_structures(name) ==
    LET tag_map ==
            <<<<W(\h74, \h46, \h94, \hE0), LazyBound("text_plain_struct")>>,
              <<W(\hDC, \h3D, \h82, \h4F), LazyBound("text_empty_struct")>>,
              <<W(\h67, \h24, \hAB, \hC4), LazyBound("text_bold_struct")>>,
              <<W(\h7E, \h62, \h60, \hD7), LazyBound("text_concat_struct")>>>>
    IN  "rich_text_structures" // Struct(<<"_signature" // Peek(Int32ul),
                                           name // Switch("_signature", tag_map)>>)

text_bold_struct ==
    Struct(<<"sname" // Computed("text_bold"),
             "signature" // Const(W(\h67, \h24, \hAB, \hC4)),
             "text" // rich_text_structures("text")>>)

text_concat_struct ==
    Struct(<<"sname" // Computed("text_concat"),
             "signature" // Const(W(\h7E, \h62, \h60, \hD7)),
             "_vector_sig" // Const(VectorSignature),
             "rich_texts_num" // Int32ul,
             "rich_texts" // Array("rich_texts_num", rich_text_structures("rich_text"))>>)

page_block_divider_struct ==
    Struct(<<"sname" // Computed("page_block_divider"),
             "signature" // Const(W(\hDB, \h20, \hB1, \h88))>>)

(* a title variant that peeks its signature, leaves it in the stream and
   hands it to a slot of its own, which dispatches on it once more *)
page_block_title_struct_unsigned ==
    Struct(<<"sname" // Computed("page_block_title"),
             "signature" // (Peek(Int32ul) @@ [value |-> W(\h70, \hAB, \hC3, \hFD)]),
             "text" // ("rich_text_structures"
                         // Struct(<<"_signature" // Peek(Int32ul),
                                     "text" // Switch("_signature",
                                                      <<<<W(\h70, \hAB, \hC3, \hFD),
                                                          LazyBound("text_empty_struct")>>>>)>>))>>)

page_block_title_struct ==
    Struct(<<"sname" // Computed("page_block_title"),
             "signature" // Const(W(\h70, \hAB, \hC3, \hFD)),
             "text" // rich_text_structures("text")>>)

page_block_structures(name) ==
    LET tag_map ==
            <<<<W(\hDB, \h20, \hB1, \h88), LazyBound("page_block_divider_struct")>>,
              <<W(\h39, \hF2, \h33, \h00), LazyBound("page_block_cover_struct")>>,
              <<W(\h70, \hAB, \hC3, \hFD), LazyBound("page_block_title_struct")>>>>
    IN  "page_block_structures" // Struct(<<"_signature" // Peek(Int32ul),
                                            name // Switch("_signature", tag_map)>>)

page_block_cover_struct ==
    Struct(<<"sname" // Computed("page_block_cover"),
             "signature" // Const(W(\h39, \hF2, \h33, \h00)),
             "cover" // page_block_structures("cover")>>)

(* self.<ref>(): the schema a bound method builds when it is called *)
Method(ref) ==
    CASE ref = "bot_command_struct" -> bot_command_struct
      [] ref = "message_service_layer48_struct" -> message_service_layer48_struct
      [] ref = "message_layer68_struct" -> message_layer68_struct
      [] ref = "bot_info_struct" -> bot_info_struct
      [] ref = "chat_empty_struct" -> chat_empty_struct
      [] ref = "channel_forbidden_struct" -> channel_forbidden_struct
      [] ref = "user_empty_struct" -> user_empty_struct
      [] ref = "peer_channel_struct" -> peer_channel_struct
      [] ref = "peer_chat_struct" -> peer_chat_struct
      [] ref = "peer_user_struct" -> peer_user_struct
      [] ref = "message_action_chat_create_struct" -> message_action_chat_create_struct
      [] ref = "message_action_chat_delete_photo_struct"
             -> message_action_chat_delete_photo_struct
      [] ref = "message_action_chat_edit_title_struct"
             -> message_action_chat_edit_title_struct
      [] ref = "message_action_empty_struct" -> message_action_empty_struct
      [] ref = "message_entity_italic_struct" -> message_entity_italic_struct
      [] ref = "message_entity_unknown_struct" -> message_entity_unknown_struct
      [] ref = "message_empty_struct" -> message_empty_struct
      [] ref = "message_fwd_header_layer68_struct" -> message_fwd_header_layer68_struct
      [] ref = "message_media_empty_struct" -> message_media_empty_struct
      [] ref = "message_media_unsupported_struct" -> message_media_unsupported_struct
      [] ref = "reply_keyboard_hide_struct" -> reply_keyboard_hide_struct
      [] ref = "restriction_reason_struct" -> restriction_reason_struct
      [] ref = "message_service_struct" -> message_service_struct
      [] ref = "message_old5_struct" -> message_old5_struct
      [] ref = "message_struct" -> message_struct
      [] ref = "file_location_unavailable_struct" -> file_location_unavailable_struct
      [] ref = "file_location_to_be_deprecated_struct"
             -> file_location_to_be_deprecated_struct
      [] ref = "chat_photo_layer115_struct" -> chat_photo_layer115_struct
      [] ref = "chat_photo_empty_struct" -> chat_photo_empty_struct
      [] ref = "chat_old2_struct" -> chat_old2_struct
      [] ref = "input_sticker_set_animated_emoji_struct"
             -> input_sticker_set_animated_emoji_struct
      [] ref = "input_sticker_set_dice_struct" -> input_sticker_set_dice_struct
      [] ref = "input_sticker_set_empty_struct" -> input_sticker_set_empty_struct
      [] ref = "input_sticker_set_id_struct" -> input_sticker_set_id_struct
      [] ref = "input_sticker_set_short_name_struct"
             -> input_sticker_set_short_name_struct
      [] ref = "document_attribute_sticker_layer55_struct"
             -> document_attribute_sticker_layer55_struct
      [] ref = "user_profile_photo_empty_struct" -> user_profile_photo_empty_struct
      [] ref = "user_status_recently_struct" -> user_status_recently_struct
      [] ref = "user_status_online_struct" -> user_status_online_struct
      [] ref = "user_status_empty_struct" -> user_status_empty_struct
      [] ref = "user_status_offline_struct" -> user_status_offline_struct
      [] ref = "user_struct" -> user_struct
      [] ref = "text_empty_struct" -> text_empty_struct
      [] ref = "text_plain_struct" -> text_plain_struct
      [] ref = "text_bold_struct" -> text_bold_struct
      [] ref = "text_concat_struct" -> text_concat_struct
      [] ref = "page_block_divider_struct" -> page_block_divider_struct
      [] ref = "page_block_title_struct" -> page_block_title_struct
      [] ref = "page_block_cover_struct" -> page_block_cover_struct

(* ------------------------------------------------------------------ *)
(* The decoder: construct's _parse of each descriptor                   *)
(* ------------------------------------------------------------------ *)

(* FlagsEnum._decode: every declared name, set when obj & mask == mask *)
FlagsDecode(flags, w) ==
    FlagsV(w, [i \in 1..Len(flags) |->
                  Entry(flags[i][1], BoolV(MaskSet(w, flags[i][2])))])

(* this.flags.<flag>: "True", "False", or "KeyError" for an undeclared name *)
FlagCondition(ctx, flag) ==
    LET Lookup(flags) ==
            IF flags.t # "flags" \/ ~Has(flags.s, flag) THEN "KeyError"
            ELSE Get(flags.s, flag).c
    IN  Lookup(Get(ctx, "flags"))

(* bool(this.<field>): None and 0 are false *)
Truthy(val) ==
    /\ val.t # "none"
    /\ (val.t = "int" => \E i \in 1..Len(val.w) : val.w[i] # 0)

(* Switch._parse: cases.get(key, default), default Pass *)
SwitchCase(cases, key) ==
    IF key.t = "int" /\ key.w \in DOMAIN cases THEN cases[key.w] ELSE Pass

(* Struct._parse: a named subcon's value enters the container *)
Store(ctx, name, val) == IF name = "" THEN ctx ELSE Append(ctx, Entry(name, val))

RECURSIVE Parse(_, _, _, _, _)
RECURSIVE ParseSubcons(_, _, _, _, _, _, _)
RECURSIVE ParseArray(_, _, _, _, _, _, _, _)

(* Calling a schema method constructs its fields. IfThenElse.__init__ reads
   flagbuildnone of both branches; an expression object has no such
   attribute, so the construction raises AttributeError. Slot variants are
   LazyBound and are constructed when they are decoded. *)
RECURSIVE Builds(_)
Builds(con) ==
    CASE con.k \in {"IfThenElse", "IfThenElseNe"} ->
            /\ con.thensubcon.k # "BinExpr" /\ con.elsesubcon.k # "BinExpr"
            /\ Builds(con.thensubcon) /\ Builds(con.elsesubcon)
      [] con.k \in {"If", "IfEq", "Array"} -> Builds(con.subcon)
      [] con.k = "Struct" -> \A i \in DOMAIN con.subcons : Builds(con.subcons[i])
      [] OTHER -> TRUE

Parse(con, data, pos, log, ctx) ==
    CASE con.k = "Computed" -> R(pos, "", log, StrV(con.c))
      [] con.k = "Const" -> ConstInt(con.value, data, pos, log)
      [] con.k = "Int" -> ReadInt(data, pos, con.n, log)
      [] con.k = "Peek" -> PeekInt(data, pos, con.n, log)
      [] con.k = "GreedyBytes" -> GreedyRead(data, pos, log)
      [] con.k = "Terminated" -> TerminatedCheck(data, pos, log)
      [] con.k = "Pass" -> R(pos, "", log, NoneV)
      [] con.k = "tstring_struct" -> tstring_struct(data, pos, log)
      [] con.k = "tbytes_struct" -> tbytes_struct(data, pos, log)
      [] con.k = "tbool_struct" -> tbool_struct(data, pos, log)
      [] con.k = "ttimestamp_struct" -> ttimestamp_struct(data, pos, log)
      [] con.k = "FlagsEnum" ->
            LET Decode(r) == IF r.err # "" THEN r
                             ELSE R(r.pos, "", log, FlagsDecode(con.flags, r.val.w))
            IN  Decode(ReadInt(data, pos, 4, log))
      [] con.k = "If" ->
            LET Branch(cond) ==
                    IF cond = "KeyError" THEN Fail(pos, "KeyError", log)
                    ELSE IF cond = "True" THEN Parse(con.subcon, data, pos, log, ctx)
                    ELSE R(pos, "", log, NoneV)
            IN  Branch(FlagCondition(ctx, con.flag))
      [] con.k = "IfEq" ->
            IF Get(ctx, con.field).t = "int" /\ WordToNat(Get(ctx, con.field).w) = con.n
            THEN Parse(con.subcon, data, pos, log, ctx)
            ELSE R(pos, "", log, NoneV)
      [] con.k = "IfThenElseNe" ->
            IF Get(ctx, con.path[1]).t # "struct"
               \/ ~Has(Get(ctx, con.path[1]).s, con.path[2])
            THEN Fail(pos, "KeyError", log)
            ELSE IF WordToNat(Get(Get(ctx, con.path[1]).s, con.path[2]).w) # con.n
                 THEN Parse(con.thensubcon, data, pos, log, ctx)
                 ELSE Parse(con.elsesubcon, data, pos, log, ctx)
      [] con.k = "BinExpr" -> Fail(pos, "AttributeError", log)
      [] con.k = "IfThenElse" ->
            IF Truthy(Get(ctx, con.field))
            THEN Parse(con.thensubcon, data, pos, log, ctx)
            ELSE Parse(con.elsesubcon, data, pos, log, ctx)
      [] con.k = "Struct" -> ParseSubcons(con.subcons, 1, data, pos, log, <<>>, <<>>)
      [] con.k = "Array" ->
            ParseArray(con.subcon, WordToNat(Get(ctx, con.count).w),
                       data, pos, log, ctx, <<>>, <<>>)
      [] con.k = "Switch" ->
            Parse(SwitchCase(con.cases, Get(ctx, con.key)), data, pos, log, ctx)
      [] con.k = "LazyBound" ->
            IF Builds(Method(con.ref)) THEN Parse(Method(con.ref), data, pos, log, ctx)
            ELSE Fail(pos, "AttributeError", log)

ParseSubcons(subcons, i, data, pos, log, ctx, tells) ==
    LET Before == <<Tell(subcons[i], "before", pos, NoneV)>>
        Following(r) ==
            IF r.err # "" THEN [r EXCEPT !.tells = tells \o Before \o @]
            ELSE ParseSubcons(subcons, i + 1, data, r.pos, r.log,
                              Store(ctx, subcons[i].name, r.val),
                              tells \o Before \o r.tells
                                    \o <<Tell(subcons[i], "after", r.pos, r.val)>>)
    IN  IF i > Len(subcons) THEN [R(pos, "", log, StructV(ctx)) EXCEPT !.tells = tells]
        ELSE Following(Parse(subcons[i], data, pos, log, ctx))

ParseArray(subcon, count, data, pos, log, ctx, acc, tells) ==
    LET Before == <<Tell(subcon, "before", pos, NoneV)>>
        Following(r) ==
            IF r.err # "" THEN [r EXCEPT !.tells = tells \o Before \o @]
            ELSE ParseArray(subcon, count, data, r.pos, r.log, ctx,
                            Append(acc, Entry("", r.val)),
                            tells \o Before \o r.tells
                                  \o <<Tell(subcon, "after", r.pos, r.val)>>)
    IN  IF Len(acc) >= count THEN [R(pos, "", log, ArrayV(acc)) EXCEPT !.tells = tells]
        ELSE Following(Parse(subcon, data, pos, log, ctx))

(* ------------------------------------------------------------------ *)
(* The top-level table and the blob entry point                         *)
(* ------------------------------------------------------------------ *)

(* a table display in which one signature is written twice *)
tdss_callbacks_written_twice ==
    <<<<W(\h20, \h02, \h50, \hBA), <<"user_empty_struct", "user_empty", "None">>>>,
      <<W(\h9B, \hA2, \hD8, \h00), <<"chat_empty_struct", "chat_empty", "None">>>>,
      <<W(\h20, \h02, \h50, \hBA), <<"None", "user_empty", "None">>>>>>

(* tdss_callbacks, the entries of the modelled schemas and of three
   unimplemented objects; an entry is the tuple the source writes *)
tdss_callbacks_display ==
       <<<<W(\hB8, \hD0, \hAF, \hDF), <<"None", "account_days_ttl", "None">>>>,
       <<W(\hC0, \h4C, \hFA, \hC2), <<"None", "account_get_wall_papers_v_0_1_317">>>>,
       <<W(\hC2, \h7A, \hC8, \hC7), <<"bot_command_struct", "bot_command", "None">>>>,
       <<W(\h98, \hE8, \h1D, \h3A), <<"bot_info_struct", "bot_info", "None">>>>,
       <<W(\h28, \h9D, \hA7, \h32),
            <<"channel_forbidden_struct", "channel_forbidden", "None">>>>,
       <<W(\h9B, \hA2, \hD8, \h00), <<"chat_empty_struct", "chat_empty", "None">>>>,
       <<W(\h45, \h2C, \h0E, \h65), <<"message_struct", "message", "None">>>>,
       <<W(\hA6, \h63, \h8B, \h9A),
            <<"message_action_chat_create_struct", "message_action_chat_create",
                 "None">>>>,
       <<W(\h95, \hE3, \hFB, \hEF),
            <<"message_action_chat_delete_photo_struct",
                 "message_action_chat_delete_photo", "None">>>>,
       <<W(\hB5, \hA1, \hCE, \h5A),
            <<"message_action_chat_edit_title_struct",
                 "message_action_chat_edit_title", "None">>>>,
       <<W(\hB6, \hAE, \hF7, \hB0),
            <<"message_action_empty_struct", "message_action_empty", "None">>>>,
       <<W(\h83, \hE5, \hDE, \h54), <<"message_empty_struct", "message_empty", "None">>>>,
       <<W(\hC0, \h6B, \h96, \h07),
            <<"message_service_layer48_struct", "message_service_layer48", "None">>>>,
       <<W(\hC0, \h9B, \hE4, \h5F), <<"message_layer68_struct", "message_layer68", "None">>>>,
       <<W(\h82, \h6F, \h8B, \h60),
            <<"message_entity_italic_struct", "message_entity_italic", "None">>>>,
       <<W(\hBB, \h92, \hBA, \h95),
            <<"message_entity_unknown_struct", "message_entity_unknown", "None">>>>,
       <<W(\hC7, \h86, \hDD, \hCB),
            <<"message_fwd_header_layer68_struct", "message_fwd_header_layer68",
                 "None">>>>,
       <<W(\h3D, \hED, \h63, \h20),
            <<"message_media_empty_struct", "message_media_empty", "None">>>>,
       <<W(\h9F, \h84, \hF4, \h9E),
            <<"message_media_unsupported_struct", "message_media_unsupported",
                 "None">>>>,
       <<W(\h9E, \h19, \hA1, \hF6),
            <<"message_service_struct", "message_service", "None">>>>,
       <<W(\hF0, \h78, \h14, \hC8), <<"message_old5_struct", "message_old5", "None">>>>,
       <<W(\hBD, \hDD, \hE5, \h32), <<"peer_channel_struct", "peer_channel", "None">>>>,
       <<W(\hBA, \hD0, \hE5, \hBB), <<"peer_chat_struct", "peer_chat", "None">>>>,
       <<W(\h9D, \hB1, \hBC, \h6D), <<"peer_user_struct", "peer_user", "None">>>>,
       <<W(\hA0, \h3E, \h5B, \h85),
            <<"reply_keyboard_hide_struct", "reply_keyboard_hide", "None">>>>,
       <<W(\hD0, \h72, \hAC, \hB4),
            <<"restriction_reason_struct", "restriction_reason", "None">>>>,
       <<W(\h20, \h02, \h50, \hBA), <<"user_empty_struct", "user_empty", "None">>>>,
       <<W(\h47, \h5C, \hDB, \hD5),
            <<"chat_photo_layer115_struct", "chat_photo_layer115">>>>,
       <<W(\h37, \hC1, \h01, \h1C),
            <<"chat_photo_empty_struct", "chat_photo_empty", "None">>>>,
       <<W(\h73, \h12, \hBC, \h48), <<"chat_old2_struct", "chat_old2", "None">>>>,
       <<W(\h3A, \h55, \h63, \h02),
            <<"document_attribute_sticker_layer55_struct",
                 "document_attribute_sticker_layer55", "None">>>>,
       <<W(\hBC, \h7F, \hC6, \hCD),
            <<"file_location_to_be_deprecated_struct",
                 "file_location_to_be_deprecated", "None">>>>,
       <<W(\h7C, \h59, \h6B, \h46),
            <<"file_location_unavailable_struct", "file_location_unavailable",
                 "None">>>>,
       <<W(\h02, \h87, \h03, \hC8),
            <<"input_sticker_set_animated_emoji_struct",
                 "input_sticker_set_animated_emoji", "None">>>>,
       <<W(\hE6, \h7F, \h52, \h0E),
            <<"input_sticker_set_dice_struct", "input_sticker_set_dice", "None">>>>,
       <<W(\hFF, \hB6, \h2B, \h95),
            <<"input_sticker_set_empty_struct", "input_sticker_set_empty", "None">>>>,
       <<W(\h9D, \hE7, \hA2, \h69),
            <<"input_sticker_set_id_struct", "input_sticker_set_id", "None">>>>,
       <<W(\h86, \h1C, \hC8, \hA0),
            <<"input_sticker_set_short_name_struct", "input_sticker_set_short_name",
                 "None">>>>,
       <<W(\h93, \h84, \h58, \hC1), <<"user_struct", "user", "None">>>>,
       <<W(\h3F, \hF6, \hEC, \hB0), <<"user_struct", "user", "None">>>>,
       <<W(\h4F, \h11, \hBA, \hE1),
            <<"user_profile_photo_empty_struct", "user_profile_photo_empty",
                 "None">>>>,
       <<W(\h09, \hD0, \h50, \h49),
            <<"user_status_empty_struct", "user_status_empty", "None">>>>,
       <<W(\h00, \h8C, \h70, \h3F),
            <<"user_status_offline_struct", "user_status_offline", "None">>>>,
       <<W(\hED, \hB9, \h39, \h49),
            <<"user_status_online_struct", "user_status_online", "None">>>>,
       <<W(\hE2, \h6F, \h42, \hF1),
            <<"user_status_recently_struct", "user_status_recently", "None">>>>,
       <<W(\hDC, \h3D, \h82, \h4F), <<"text_empty_struct", "text_empty", "None">>>>,
       <<W(\h74, \h46, \h94, \hE0), <<"text_plain_struct", "text_plain", "None">>>>,
       <<W(\h67, \h24, \hAB, \hC4), <<"text_bold_struct", "text_bold", "None">>>>,
       <<W(\h7E, \h62, \h60, \hD7), <<"text_concat_struct", "text_concat", "None">>>>,
       <<W(\hDB, \h20, \hB1, \h88),
            <<"page_block_divider_struct", "page_block_divider", "None">>>>,
       <<W(\h70, \hAB, \hC3, \hFD),
            <<"page_block_title_struct", "page_block_title", "None">>>>,
       <<W(\h39, \hF2, \h33, \h00),
            <<"page_block_cover_struct", "page_block_cover", "None">>>>,
       <<VectorSignature, <<"None", "_vector", "None">>>>>>

(* the table: the mapping the display evaluates to *)
tdss_callbacks == dict(tdss_callbacks_display)

(* what one call leaves behind: the exception that left parse_blob ("" when it
   returned), the returned pblob, the stream position (pblob._io.tell(), or
   where the stream stood when the exception was raised), the diagnostics
   logged, the instance's table after the call, and the stream positions seen
   around each field while decoding *)
Outcome(raised, pblob, tell, log, callbacks) ==
    [raised |-> raised, pblob |-> pblob, tell |-> tell, log |-> log,
     callbacks |-> callbacks, tells |-> <<>>]

(* mutant: the table is indexed without the membership test *)
UnknownSignatureRaises(signature, callbacks) ==
    [raised |-> "KeyError", pblob |-> NoneV, tell |-> 0, log |-> <<>>,
     callbacks |-> callbacks]

(* mutant: an unknown signature is remembered in the instance's table *)
UnknownSignatureCached(signature, callbacks) ==
    [raised |-> "", pblob |-> NoneV, tell |-> 0,
     log |-> <<LogEntry("error", "unknown signature", "", signature, 0, 0, <<>>)>>,
     callbacks |-> (signature :> <<"None", "unknown", "None">>) @@ callbacks]

(* logger.error("unknown signature %s", hex(signature)) *)
UnknownSignature(signature, callbacks) ==
    Outcome("", NoneV, 0,
            <<LogEntry("error", "unknown signature", "", signature, 0, 0, <<>>)>>,
            callbacks)

(* logger.warning("blob '%s' [%s] not supported", name, hex(signature)) *)
NotSupported(name, signature, callbacks) ==
    Outcome("", NoneV, 0,
            <<LogEntry("warning", "not supported", name, signature, 0, 0, <<>>)>>,
            callbacks)

(* mutant: the warning does not test the length of UNPARSED *)
UnparsedWarningAlways(pblob, name, signature) ==
    LET Warn(unparsed) ==
            IF unparsed.t = "bytes"
            THEN <<LogEntry("warning", "contains unparsed data", name, signature,
                            Len(unparsed.w), 0, <<>>)>>
            ELSE <<>>
    IN  Warn(Get(pblob.s, "UNPARSED"))

(* the warning about a non-empty UNPARSED field *)
UnparsedWarning(pblob, name, signature) ==
    LET Warn(unparsed) ==
            IF unparsed.t = "bytes" /\ Len(unparsed.w) > 0
            THEN <<LogEntry("warning", "contains unparsed data", name, signature,
                            Len(unparsed.w), 0, <<>>)>>
            ELSE <<>>
    IN  Warn(Get(pblob.s, "UNPARSED"))

(* mutant: the two lengths are reported without being compared *)
NotAllParsedErrorAlways(data, object_len, name, signature) ==
    <<LogEntry("error", "Not all data parsed", name, signature,
               Len(data), object_len, Rest(data, object_len))>>

(* the error about data_len != object_len, with the missed bytes *)
NotAllParsedError(data, object_len, name, signature) ==
    IF Len(data) # object_len
    THEN <<LogEntry("error", "Not all data parsed", name, signature,
                    Len(data), object_len, Rest(data, object_len))>>
    ELSE <<>>

(* blob_parser(self).parse(data) and the two length checks after it *)
ParseAndReport(blob_parser, name, signature, data, callbacks) ==
    LET Report(r) ==
            IF r.err # ""
            THEN [Outcome(r.err, NoneV, r.pos, r.log, callbacks) EXCEPT !.tells = r.tells]
            ELSE [Outcome("", r.val, r.pos,
                          r.log \o UnparsedWarning(r.val, name, signature)
                                \o NotAllParsedError(data, r.pos, name, signature),
                          callbacks) EXCEPT !.tells = r.tells]
    IN  IF Builds(Method(blob_parser))
        THEN Report(Parse(Method(blob_parser), data, 0, <<>>, <<>>))
        ELSE Outcome("AttributeError", NoneV, 0, <<>>, callbacks)

parse_blob(callbacks, data) ==
    LET Call(signature, entry) ==
            IF Len(entry) # 3
            THEN Outcome("ValueError", NoneV, 0, <<>>, callbacks)
            ELSE IF entry[1] # "None"
                 THEN ParseAndReport(entry[1], entry[2], signature, data, callbacks)
                 ELSE NotSupported(entry[2], signature, callbacks)
        Lookup(signature) ==
            IF signature \in DOMAIN callbacks
            THEN Call(signature, callbacks[signature])
            ELSE UnknownSignature(signature, callbacks)
    IN  Lookup(from_bytes_little(Take(data, 4)))

(* <struct>.parse(data) of a primitive structure on its own *)
ParseOnly(r, callbacks) ==
    IF r.err # "" THEN Outcome(r.err, NoneV, r.pos, r.log, callbacks)
    ELSE Outcome("", r.val, r.pos, r.log, callbacks)

(* ------------------------------------------------------------------ *)
(* Inputs: TL encodings of the modelled schemas and damaged copies      *)
(* ------------------------------------------------------------------ *)

MaxCount == 2
MaxTrailing == 5
MaxDepth == 2

U32(n) == <<n % 256, (n \div 256) % 256, (n \div 65536) % 256, n \div 16777216>>
U64(n) == U32(n) \o ZeroWord
Fill(n, b) == [i \in 1..n |-> b]
Opt(flags, mask, bytes) == IF (flags \div mask) % 2 = 1 THEN bytes ELSE <<>>

RECURSIVE Repeat(_, _)
Repeat(n, bytes) == IF n = 0 THEN <<>> ELSE bytes \o Repeat(n - 1, bytes)

RECURSIVE Sum(_)
Sum(S) == IF S = {} THEN 0 ELSE LET x == CHOOSE y \in S : TRUE IN x + Sum(S \ {x})

(* a TL string in the short form and in the long form led by byte first *)
TL(bytes) == <<Len(bytes)>> \o bytes \o Fill((4 - ((Len(bytes) + 1) % 4)) % 4, 0)
TLLong(first, bytes) ==
    <<first, Len(bytes) % 256, (Len(bytes) \div 256) % 256, Len(bytes) \div 65536>>
    \o bytes \o Fill((4 - (Len(bytes) % 4)) % 4, 0)

SEmpty == <<>>
SAbc == <<97, 98, 99>>
SHello == <<104, 101, 108, 108, 111>>
SNotUtf8 == <<195, 40>>
Titles == {SEmpty, SAbc, SHello, SNotUtf8}

SigOf(ref) == Method(ref).subcons[2].value
ADate == U32(1500000000)

Peers == {SigOf("peer_user_struct") \o U32(7), SigOf("peer_channel_struct") \o U32(42)}

EncVector(n, element) == VectorSignature \o U32(n) \o Repeat(n, element)

Actions ==
    {SigOf("message_action_chat_delete_photo_struct"),
     SigOf("message_action_empty_struct"),
     SigOf("message_action_chat_edit_title_struct") \o TL(SHello)}
    \cup {SigOf("message_action_chat_create_struct") \o TL(SAbc) \o EncVector(n, U32(7))
            : n \in 0..MaxCount}

EncUserEmpty == {SigOf("user_empty_struct") \o U32(id) : id \in {7, 42}}
EncChatEmpty == {SigOf("chat_empty_struct") \o U32(id) : id \in {0, 7, 305419896}}

ChannelForbiddenFlags == {Sum(S) : S \in SUBSET {32, 256, 65536}} \cup {1}
EncChannelForbidden ==
    {SigOf("channel_forbidden_struct") \o U32(f) \o U32(7) \o U64(99) \o TL(t)
        \o Opt(f, 65536, ADate)
        : f \in ChannelForbiddenFlags, t \in Titles}

EncBotCommand == SigOf("bot_command_struct") \o TL(SAbc) \o TL(SHello)
EncBotInfo ==
    {SigOf("bot_info_struct") \o U32(7) \o TL(t) \o EncVector(n, EncBotCommand)
        : t \in {SAbc, SNotUtf8}, n \in 0..MaxCount}

EncMessageService ==
    {SigOf("message_service_struct") \o U32(f) \o U32(7) \o Opt(f, 256, U32(9)) \o p
        \o Opt(f, 8, U32(3)) \o ADate \o a
        : f \in {0, 8, 256, 264}, p \in Peers, a \in Actions}

EncMessageEmpty ==
    {SigOf("message_empty_struct") \o U32(7)}
    \cup {SigOf("message_empty_struct") \o U32(7) \o p : p \in Peers}

EncMessageOld5 ==
    {SigOf("message_old5_struct") \o U32(f) \o U32(7) \o U32(9) \o p
        \o Opt(f, 4, U32(5) \o ADate) \o Opt(f, 8, U32(3)) \o ADate \o TL(SHello)
        : f \in {0, 4, 8}, p \in Peers}

EncFwdHeader == SigOf("message_fwd_header_layer68_struct") \o U32(1) \o U32(9) \o ADate
EncEntity == SigOf("message_entity_italic_struct") \o U32(0) \o U32(5)
EncRestriction ==
    SigOf("restriction_reason_struct") \o TL(SAbc) \o TL(SAbc) \o TL(SHello)

MessageGates == {4, 8, 64, 128, 256, 512, 1024, 2048, 32768, 65536, 131072, 4194304}
MessageFlags == {0, 2, Sum(MessageGates)} \cup MessageGates
EncMessage ==
    {SigOf("message_struct") \o U32(f) \o U32(7) \o Opt(f, 256, U32(9))
        \o SigOf("peer_user_struct") \o U32(7) \o Opt(f, 4, EncFwdHeader)
        \o Opt(f, 2048, U32(11)) \o Opt(f, 8, U32(3)) \o ADate \o TL(SHello)
        \o Opt(f, 512, SigOf("message_media_empty_struct"))
        \o Opt(f, 64, SigOf("reply_keyboard_hide_struct") \o U32(4))
        \o Opt(f, 128, EncVector(1, EncEntity)) \o Opt(f, 1024, U32(12))
        \o Opt(f, 32768, ADate) \o Opt(f, 65536, TL(SAbc)) \o Opt(f, 131072, U64(13))
        \o Opt(f, 4194304, EncVector(1, EncRestriction))
        : f \in MessageFlags}

(* complete encodings of the schemas without and with an UNPARSED field *)
ValidNoTail ==
    EncUserEmpty \cup EncChatEmpty \cup EncChannelForbidden \cup EncBotInfo
    \cup EncMessageService \cup EncMessageEmpty \cup EncMessageOld5
ValidTail == EncMessage
Valid == ValidNoTail \cup ValidTail

(* encodings of the objects that sit in a slot of a container and are also
   listed in the table, and of their containers *)
EncFileLocation ==
    {SigOf("file_location_to_be_deprecated_struct") \o U64(5) \o U32(6),
     SigOf("file_location_unavailable_struct") \o U64(5) \o U32(6) \o U64(8)}
EncChatPhotoLayer115 ==
    {SigOf("chat_photo_layer115_struct") \o small \o big \o U32(2)
        : small \in EncFileLocation, big \in EncFileLocation}

EncChatPhoto == {SigOf("chat_photo_empty_struct")} \cup EncChatPhotoLayer115
EncChatOld2 ==
    {SigOf("chat_old2_struct") \o U32(f) \o U32(7) \o TL(SAbc) \o photo \o U32(2)
        \o ADate \o U32(1)
        : f \in {0, 1}, photo \in EncChatPhoto}

EncStickerSet ==
    {W(\h02, \h87, \h03, \hC8),
     SigOf("input_sticker_set_dice_struct") \o TL(SAbc),
     SigOf("input_sticker_set_empty_struct"),
     SigOf("input_sticker_set_id_struct") \o U64(5) \o U64(99),
     SigOf("input_sticker_set_short_name_struct") \o TL(SHello)}
EncStickerAttribute ==
    {SigOf("document_attribute_sticker_layer55_struct") \o TL(SAbc) \o s
        : s \in EncStickerSet}

EncUserPhoto == {SigOf("user_profile_photo_empty_struct")}
EncUserStatus ==
    {SigOf("user_status_empty_struct"), SigOf("user_status_recently_struct"),
     SigOf("user_status_online_struct") \o ADate}
UserGates == {1, 2, 4, 8, 16, 32, 64, 16384, 262144}
UserFlags == {0, 1024, Sum(UserGates)} \cup UserGates
EncUserBody ==
    {U32(f) \o U32(7) \o Opt(f, 1, U64(99)) \o Opt(f, 2, TL(SAbc))
        \o Opt(f, 4, TL(SHello)) \o Opt(f, 8, TL(SAbc)) \o Opt(f, 16, TL(SHello))
        \o Opt(f, 32, SigOf("user_profile_photo_empty_struct")) \o Opt(f, 64, s)
        \o Opt(f, 16384, U32(3)) \o Opt(f, 262144, EncVector(1, EncRestriction))
        : f \in UserFlags, s \in EncUserStatus}
(* a user object under each of the two signatures the table lists for it *)
EncUser == {SigOf("user_struct") \o b : b \in EncUserBody}
EncUserOtherKey == {W(\h3F, \hF6, \hEC, \hB0) \o b : b \in EncUserBody}

(* rich texts and page blocks nested to a depth: a plain or empty text, a bold
   text around a rich text, and a concatenation of n copies of a rich text *)
RECURSIVE EncRichText(_)
EncRichText(depth) ==
    IF depth = 0
    THEN {SigOf("text_empty_struct"), SigOf("text_plain_struct") \o TL(SAbc)}
    ELSE EncRichText(depth - 1)
         \cup {SigOf("text_bold_struct") \o t : t \in EncRichText(depth - 1)}
         \cup {SigOf("text_concat_struct") \o EncVector(n, t)
                  : n \in 0..MaxCount, t \in EncRichText(depth - 1)}

RECURSIVE EncPageBlock(_)
EncPageBlock(depth) ==
    IF depth = 0
    THEN {SigOf("page_block_divider_struct")}
         \cup {SigOf("page_block_title_struct") \o t : t \in EncRichText(1)}
    ELSE EncPageBlock(depth - 1)
         \cup {SigOf("page_block_cover_struct") \o b : b \in EncPageBlock(depth - 1)}

(* a concatenation whose input ends before the announced rich texts do *)
EncConcatCut ==
    UNION {{Slice(e, 0, k) : k \in 12..(Len(e) - 1)}
              : e \in {SigOf("text_concat_struct") \o EncVector(n, t)
                          : n \in 1..MaxCount, t \in EncRichText(0)}}

(* service messages and messages of the old layers, with and without from_id,
   with from_id 0, sent to a user and to a channel *)
FromIds == {0, 9}
EncAdjusted ==
    {SigOf("message_service_layer48_struct") \o U32(f) \o U32(7) \o Opt(f, 256, U32(i))
        \o p \o ADate \o a : f \in {0, 256}, i \in FromIds, p \in Peers, a \in Actions}
    \cup {SigOf("message_layer68_struct") \o U32(f) \o U32(7) \o Opt(f, 256, U32(i))
             \o p \o ADate \o TL(SHello) : f \in {0, 256}, i \in FromIds, p \in Peers}

(* a user_status_offline object, whose signature 0x008C703F ends in a zero
   byte, and its leading one, two and three bytes *)
EncOffline == {SigOf("user_status_offline_struct") \o ADate}
Short == UNION {{Slice(e, 0, k) : k \in 1..3} : e \in EncOffline}

Nested ==
    EncFileLocation \cup EncChatPhoto \cup EncStickerSet \cup EncUserPhoto
    \cup EncUserStatus \cup Peers \cup EncRichText(MaxDepth)
Containers ==
    EncChatOld2 \cup EncStickerAttribute \cup EncUser \cup EncUserOtherKey
    \cup EncPageBlock(MaxDepth) \cup EncConcatCut

Prefix(e, k) == Slice(e, 0, k)
WordAt(e, o) == Slice(e, o, 4)
ReplaceWord(e, o, g) ==
    [i \in 1..Len(e) |-> IF i > o /\ i <= o + 4 THEN g[i - o] ELSE e[i]]
WordOffsets(e) == {o \in 0..(Len(e) - 4) : o % 4 = 0}

Trailing ==
    {Fill(n, 0) : n \in 1..MaxTrailing} \cup {[i \in 1..n |-> 16 + i] : n \in 1..MaxTrailing}

Garbage == W(0, 0, 0, 5)

Truncated == (UNION {{Prefix(e, k) : k \in 0..(Len(e) - 1)} : e \in Valid}) \ Valid
Trailed == {e \o t : e \in Valid, t \in Trailing}
Corrupted == UNION {{ReplaceWord(e, o, Garbage) : o \in WordOffsets(e)} : e \in Valid}
Unsupported ==
    {W(\hB8, \hD0, \hAF, \hDF), W(\hB8, \hD0, \hAF, \hDF) \o U32(7), VectorSignature,
     W(\hC0, \h4C, \hFA, \hC2)}
Unknown ==
    {<<>>, <<1>>, Garbage, W(\hDE, \hAD, \hBE, \hEF) \o U32(7),
     W(\hDE, \hAD, \hBE, \hEF) \o SigOf("user_empty_struct")}

Blobs ==
    Valid \cup Truncated \cup Trailed \cup Corrupted \cup Unsupported \cup Unknown
    \cup Nested \cup Containers \cup EncAdjusted \cup EncOffline \cup Short

(* buffers for the two string codecs on their own *)
ShortLens == {0, 1, 2, 3, 4, 5, 7, 253}
LongLens == {0, 1, 2, 3, 4, 254, 300}
Payloads(n) == {Fill(n, 65)} \cup (IF n >= 2 /\ n <= 5 THEN {SNotUtf8 \o Fill(n - 2, 66)} ELSE {})
ValidBuffers ==
    (UNION {{TL(b) : b \in Payloads(n)} : n \in ShortLens})
    \cup (UNION {{TLLong(first, b) : b \in Payloads(n), first \in {254, 255}}
                    : n \in LongLens})
EdgeCuts(e) == {k \in 0..(Len(e) - 1) : k <= 8 \/ k >= Len(e) - 4}
Buffers ==
    ValidBuffers
    \cup (UNION {{Prefix(e, k) : k \in EdgeCuts(e)} : e \in ValidBuffers})
    \cup {e \o t : e \in ValidBuffers, t \in Trailing}

(* buffers for the boolean codec: the two signatures, their neighbours, other
   words, each alone, followed by more bytes, and cut short *)
BoolWords ==
    {TrueSignature, FalseSignature, ZeroWord, Garbage, VectorSignature,
     W(\hFF, \hFF, \hFF, \hFF), W(\h99, \h72, \h75, \hB4), W(\hBC, \h79, \h97, \h36),
     W(\hB5, \h75, \h72, \h99), W(\h37, \h97, \h79, \hBC)}
BoolBuffers ==
    BoolWords
    \cup {b \o t : b \in BoolWords, t \in Trailing}
    \cup {Prefix(b, k) : b \in BoolWords, k \in 0..3}

(* the blobs decoded again after the first call *)
Probes ==
    {SigOf("user_empty_struct") \o U32(7),
     SigOf("user_empty_struct") \o U32(7) \o Fill(2, 0),
     W(\hDE, \hAD, \hBE, \hEF) \o U32(7),
     W(\hB8, \hD0, \hAF, \hDF),
     W(\hC0, \h4C, \hFA, \hC2),
     SigOf("message_empty_struct") \o U32(7),
     SigOf("channel_forbidden_struct") \o U32(0) \o U32(7) \o U64(99) \o TL(SNotUtf8),
     SigOf("bot_info_struct") \o U32(7) \o TL(SAbc) \o EncVector(1, EncBotCommand)}

(* ------------------------------------------------------------------ *)
(* State machine: calls on one tblob instance                           *)
(* ------------------------------------------------------------------ *)

VARIABLES
    callbacks,  \* self._callbacks
    op,         \* the operation called: parse_blob or a primitive's parse
    data,       \* its argument
    pc,         \* "called" on entry, "returned" once the call is over
    outcome,    \* what the call left behind
    first,      \* the first decode of a probe blob on this instance
    others,     \* whether a different blob was decoded after first
    stack       \* the schema constructors being evaluated, outermost first

vars == <<callbacks, op, data, pc, outcome, first, others, stack>>

NoOutcome == Outcome("", NoneV, 0, <<>>, <<>>)
NoFirst == [set |-> FALSE, data |-> <<>>, outcome |-> NoOutcome]

Ops == {"parse_blob", "tstring_struct", "tbytes_struct", "tbool_struct"}
Inputs(o) ==
    CASE o = "parse_blob" -> Blobs
      [] o = "tbool_struct" -> BoolBuffers
      [] OTHER -> Buffers

(* tblob.__init__ copies tdss_callbacks; the first call is about to run *)
Init ==
    /\ callbacks = tdss_callbacks
    /\ op \in Ops
    /\ data \in Inputs(op)
    /\ pc = "called"
    /\ outcome = NoOutcome
    /\ first = NoFirst
    /\ others = FALSE
    /\ stack = <<>>

ParseBlob ==
    /\ pc = "called"
    /\ op = "parse_blob"
    /\ outcome' = parse_blob(callbacks, data)
    /\ callbacks' = outcome'.callbacks
    /\ pc' = "returned"
    /\ first' = IF ~first.set /\ data \in Probes
                THEN [set |-> TRUE, data |-> data, outcome |-> outcome']
                ELSE first
    /\ others' = (others \/ (first.set /\ data # first.data))
    /\ UNCHANGED <<op, data, stack>>

ParseTString ==
    /\ pc = "called"
    /\ op = "tstring_struct"
    /\ outcome' = ParseOnly(tstring_struct(data, 0, <<>>), callbacks)
    /\ pc' = "returned"
    /\ UNCHANGED <<callbacks, op, data, first, others, stack>>

ParseTBytes ==
    /\ pc = "called"
    /\ op = "tbytes_struct"
    /\ outcome' = ParseOnly(tbytes_struct(data, 0, <<>>), callbacks)
    /\ pc' = "returned"
    /\ UNCHANGED <<callbacks, op, data, first, others, stack>>

ParseTBool ==
    /\ pc = "called"
    /\ op = "tbool_struct"
    /\ outcome' = ParseOnly(tbool_struct(data, 0, <<>>), callbacks)
    /\ pc' = "returned"
    /\ UNCHANGED <<callbacks, op, data, first, others, stack>>

(* the caller hands the instance another blob *)
NextBlob ==
    /\ pc = "returned"
    /\ op = "parse_blob"
    /\ \E d \in Probes :
          /\ data' = d
          /\ pc' = "called"
    /\ UNCHANGED <<callbacks, op, outcome, first, others, stack>>

Next == ParseBlob \/ ParseTString \/ ParseTBytes \/ ParseTBool \/ NextBlob

Spec == Init /\ [][Next]_vars

(* ------------------------------------------------------------------ *)
(* Building a decoder: blob_parser(self) evaluates a schema constructor *)
(* ------------------------------------------------------------------ *)

(* the schema constructors and slot builders of the model *)
Constructors ==
    {"bot_command_struct", "bot_info_struct", "channel_forbidden_struct",
     "chat_empty_struct", "chat_old2_struct", "chat_photo_empty_struct",
     "chat_photo_layer115_struct", "chat_photo_structures",
     "document_attribute_sticker_layer55_struct", "file_location_structures",
     "file_location_to_be_deprecated_struct", "file_location_unavailable_struct",
     "input_sticker_set_animated_emoji_struct", "input_sticker_set_dice_struct",
     "input_sticker_set_empty_struct", "input_sticker_set_id_struct",
     "input_sticker_set_short_name_struct", "input_sticker_set_structures",
     "message_action_chat_create_struct", "message_action_chat_delete_photo_struct",
     "message_action_chat_edit_title_struct", "message_action_empty_struct",
     "message_action_structures", "message_empty_struct",
     "message_entity_italic_struct", "message_entity_structures",
     "message_entity_unknown_struct", "message_fwd_header_layer68_struct",
     "message_fwd_header_structures", "message_media_empty_struct",
     "message_media_structures", "message_media_unsupported_struct",
     "message_old5_struct", "message_service_struct", "message_struct",
     "page_block_cover_struct", "page_block_divider_struct", "page_block_structures",
     "page_block_title_struct", "peer_channel_struct", "peer_chat_struct",
     "peer_structures", "peer_user_struct", "reply_keyboard_hide_struct",
     "reply_markup_structures", "restriction_reason_struct", "rich_text_structures",
     "text_bold_struct", "text_concat_struct", "text_empty_struct",
     "text_plain_struct", "user_empty_struct", "user_profile_photo_empty_struct",
     "user_profile_photo_structures", "user_status_empty_struct",
     "user_status_offline_struct", "message_service_layer48_struct",
     "message_layer68_struct", "user_status_online_struct", "user_status_recently_struct",
     "user_status_structures", "user_struct"}

(* an eager-reference table with a cycle: the rich-text slot calls a variant's
   constructor instead of binding it lazily *)
EagerCallsCyclic(ref) ==
    CASE ref = "rich_text_structures" -> <<"text_bold_struct">>
      [] ref = "text_bold_struct" -> <<"rich_text_structures">>
      [] OTHER -> <<>>

(* the constructors and slot builders a constructor's body calls itself
   (self.<ref>() outside any lambda), in source order; a reference wrapped in
   LazyBound(lambda: ...) is not called while the body is evaluated *)
EagerCalls(ref) ==
    CASE ref = "bot_info_struct"
             -> <<"bot_command_struct">>
      [] ref = "chat_old2_struct"
             -> <<"chat_photo_structures">>
      [] ref = "chat_photo_layer115_struct"
             -> <<"file_location_structures", "file_location_structures">>
      [] ref = "document_attribute_sticker_layer55_struct"
             -> <<"input_sticker_set_structures">>
      [] ref = "message_empty_struct"
             -> <<"peer_structures">>
      [] ref = "message_old5_struct"
             -> <<"peer_structures", "message_media_structures", "reply_markup_structures", "message_entity_structures">>
      [] ref = "message_service_struct"
             -> <<"peer_structures", "message_action_structures">>
      (* the two bodies below raise at from_id_adjusted, after to_id *)
      [] ref = "message_service_layer48_struct"
             -> <<"peer_structures">>
      [] ref = "message_layer68_struct"
             -> <<"peer_structures">>
      [] ref = "message_struct"
             -> <<"peer_structures", "message_fwd_header_structures", "message_media_structures", "reply_markup_structures", "message_entity_structures", "restriction_reason_struct">>
      [] ref = "page_block_cover_struct"
             -> <<"page_block_structures">>
      [] ref = "page_block_title_struct"
             -> <<"rich_text_structures">>
      [] ref = "text_bold_struct"
             -> <<"rich_text_structures">>
      [] ref = "text_concat_struct"
             -> <<"rich_text_structures">>
      [] ref = "user_struct"
             -> <<"user_profile_photo_structures", "user_status_structures", "restriction_reason_struct">>
      [] OTHER -> <<>>

(* the constructors a slot builder binds lazily in its dispatch map *)
LazyRefs(slot) == {slot.subcons[2].display[i][2].ref : i \in DOMAIN slot.subcons[2].display}

MaxStack == 8

Frame(ref, next) == [ref |-> ref, next |-> next]

(* a constructor has been called and its body is about to be evaluated *)
InitBuild ==
    /\ callbacks = tdss_callbacks
    /\ op = "build"
    /\ data = <<>>
    /\ pc = "called"
    /\ outcome = NoOutcome
    /\ first = NoFirst
    /\ others = FALSE
    /\ \E ref \in Constructors : stack = <<Frame(ref, 1)>>

(* the body reaches its next self.<ref>() call: the callee's body starts *)
BuildCall ==
    /\ op = "build"
    /\ pc = "called"
    /\ Len(stack) < MaxStack
    /\ LET top == stack[Len(stack)]
       IN  /\ top.next <= Len(EagerCalls(top.ref))
           /\ stack' = Append([stack EXCEPT ![Len(stack)].next = @ + 1],
                              Frame(EagerCalls(top.ref)[top.next], 1))
    /\ UNCHANGED <<callbacks, op, data, pc, outcome, first, others>>

(* the body has made all its calls: the constructor returns its Struct; the
   outermost frame stays to name the decoder that was built *)
BuildReturn ==
    /\ op = "build"
    /\ pc = "called"
    /\ stack[Len(stack)].next > Len(EagerCalls(stack[Len(stack)].ref))
    /\ IF Len(stack) = 1
       THEN pc' = "returned" /\ stack' = stack
       ELSE pc' = pc /\ stack' = SubSeq(stack, 1, Len(stack) - 1)
    /\ UNCHANGED <<callbacks, op, data, outcome, first, others>>

NextBuild == BuildCall \/ BuildReturn

(* the interpreter runs a constructor's body to its end *)
SpecBuild == InitBuild /\ [][NextBuild]_vars /\ WF_vars(NextBuild)

TypeOK ==
    /\ pc \in {"called", "returned"}
    /\ op \in Ops

(* ------------------------------------------------------------------ *)
(* Properties                                                           *)
(* ------------------------------------------------------------------ *)

Returned(o) == op = o /\ pc = "returned"

(* the value parse_blob looks up: the leading four bytes, little-endian *)
Leading == from_bytes_little(Take(data, 4))

Logged(level, msg) == {i \in 1..Len(outcome.log) :
                          outcome.log[i].level = level /\ outcome.log[i].msg = msg}

(* C1: a blob whose leading 4-byte value is not a key of the signature table
   makes parse_blob log exactly one error that carries the raw signature,
   return None and raise nothing *)
C1_UnknownSignatureIsSkipped ==
    (Returned("parse_blob") /\ Len(data) >= 4 /\ Leading \notin DOMAIN tdss_callbacks)
    => /\ outcome.raised = ""
       /\ outcome.pblob = NoneV
       /\ outcome.log =
            <<LogEntry("error", "unknown signature", "", WordAt(data, 0), 0, 0, <<>>)>>

C1_Witness ==
    /\ Returned("parse_blob")
    /\ Len(data) > 4
    /\ Leading \notin DOMAIN tdss_callbacks
    /\ Len(outcome.log) = 1
    /\ outcome.log[1].sig = W(\hDE, \hAD, \hBE, \hEF)

(* C2: a blob whose signature is in the table with no decoder makes parse_blob
   log a warning naming the object, return no record and raise nothing; this
   is stated for every such table entry, whatever its arity *)
C2_UnsupportedIsSkipped ==
    (/\ Returned("parse_blob")
     /\ Leading \in DOMAIN tdss_callbacks
     /\ tdss_callbacks[Leading][1] = "None")
    => /\ outcome.raised = ""
       /\ outcome.pblob = NoneV
       /\ outcome.log =
            <<LogEntry("warning", "not supported", tdss_callbacks[Leading][2],
                       Leading, 0, 0, <<>>)>>

(* C3: a complete encoding of a schema without an UNPARSED field, followed by
   N > 0 more bytes, is decoded: the record is returned and one error reports
   the input length, the parsed length and exactly the N bytes passed over *)
C3_TrailingBytesAreReported ==
    \A t \in Trailing :
        (/\ Returned("parse_blob")
         /\ Len(data) > Len(t)
         /\ Rest(data, Len(data) - Len(t)) = t
         /\ Prefix(data, Len(data) - Len(t)) \in ValidNoTail)
        => /\ outcome.raised = ""
           /\ outcome.pblob.t = "struct"
           /\ outcome.tell = Len(data) - Len(t)
           /\ \E i \in Logged("error", "Not all data parsed") :
                 /\ outcome.log[i].a = Len(data)
                 /\ outcome.log[i].b = Len(data) - Len(t)
                 /\ outcome.log[i].bytes = t

(* C4: in a schema that declares UNPARSED, the bytes after the declared fields
   become the UNPARSED field; parse_blob warns exactly when that field is not
   empty, and never reports a byte-count mismatch for such a record *)
C4_UnparsedTailIsCaptured ==
    /\ (Returned("parse_blob") /\ outcome.raised = "" /\ Has(outcome.pblob.s, "UNPARSED"))
       => /\ outcome.tell = Len(data)
          /\ Logged("error", "Not all data parsed") = {}
          /\ (Logged("warning", "contains unparsed data") # {})
                <=> (Get(outcome.pblob.s, "UNPARSED") # BytesV(<<>>))
    /\ \A t \in Trailing \cup {<<>>} :
          (/\ Returned("parse_blob")
           /\ Len(data) > Len(t)
           /\ Rest(data, Len(data) - Len(t)) = t
           /\ Prefix(data, Len(data) - Len(t)) \in ValidTail)
          => /\ outcome.raised = ""
             /\ Get(outcome.pblob.s, "UNPARSED") = BytesV(t)

C4_Witness ==
    /\ Returned("parse_blob")
    /\ outcome.raised = ""
    /\ Has(outcome.pblob.s, "UNPARSED")
    /\ Get(outcome.pblob.s, "UNPARSED") = BytesV(<<17, 18, 19>>)
    /\ Logged("warning", "contains unparsed data") # {}

(* d keeps its signature and ends before the last declared field of a
   complete encoding is whole *)
IsTruncatedBody(d) ==
    /\ Len(d) >= 4
    /\ d \notin Valid
    /\ \E e \in Valid : Len(e) > Len(d) /\ Prefix(e, Len(d)) = d

(* C5: a blob that ends before a declared field has all its bytes (a
   primitive, a string's padding, a vector element, a nested slot, the slot
   that is the schema's last field) makes parse_blob raise; no record comes
   back with the field left empty *)
C5_TruncationRaises ==
    (Returned("parse_blob") /\ IsTruncatedBody(data)) => outcome.raised # ""

(* the variants the *_structures dispatch maps know *)
SlotRefs ==
    {"peer_channel_struct", "peer_chat_struct", "peer_user_struct",
     "message_action_chat_create_struct", "message_action_chat_delete_photo_struct",
     "message_action_chat_edit_title_struct", "message_action_empty_struct",
     "message_entity_italic_struct", "message_entity_unknown_struct",
     "message_fwd_header_layer68_struct", "message_media_empty_struct",
     "message_media_unsupported_struct", "reply_keyboard_hide_struct"}
SlotSignatures == {SigOf(r) : r \in SlotRefs}

(* the offsets at which d differs from a complete encoding only in that a
   word out of sigs is replaced by a word no table or dispatch map has *)
Replaced(d, sigs) ==
    {o \in WordOffsets(d) :
        /\ o > 0
        /\ WordAt(d, o) = Garbage
        /\ \E sig \in sigs : ReplaceWord(d, o, sig) \in Valid}

(* C6: a nested slot whose peeked signature is in no dispatch map makes the
   decode raise; it never gives the slot an empty value and goes on with the
   fields that follow *)
C6_UnknownVariantRaises ==
    (Returned("parse_blob") /\ Replaced(data, SlotSignatures) # {})
    => outcome.raised # ""

(* C7: a vector whose first word is not 0x1CB5C415 makes the decode fail on
   that word: the constant check raises, the stream stands right after the
   marker (neither count nor elements are read) and no record is returned *)
C7_VectorMarkerIsChecked ==
    \A o \in Replaced(data, {VectorSignature}) :
        Returned("parse_blob")
        => /\ outcome.raised = "ConstError"
           /\ outcome.pblob = NoneV
           /\ outcome.tell = o + 4

C7_Witness ==
    /\ Returned("parse_blob")
    /\ \E o \in Replaced(data, {VectorSignature}) : o > 40
    /\ outcome.raised = "ConstError"

(* pad of the TL string layout for n bytes already on the wire *)
AlignTo4(n) == (4 - (n % 4)) % 4

(* C8: a TL string or bytes field whose first byte is below 254 takes
   1 + length + pad bytes with length that byte and
   pad = (4 - (1 + length) % 4) % 4; one whose first byte is 254 or 255 takes
   4 + length + pad bytes with length the little-endian word shifted right by
   8 and pad = (4 - length % 4) % 4; the value is the length bytes after the
   prefix *)
C8_StringLayout ==
    (pc = "returned" /\ op \in {"tstring_struct", "tbytes_struct"} /\ outcome.raised = "")
    => LET short == data[1] < 254
           prefix == IF short THEN 1 ELSE 4
           length == IF short THEN data[1]
                     ELSE data[2] + 256 * data[3] + 65536 * data[4]
           pad == IF short THEN AlignTo4(1 + length) ELSE AlignTo4(length)
           payload == Slice(data, prefix, length)
           fields == outcome.pblob.s
       IN  /\ outcome.tell = prefix + length + pad
           /\ op = "tbytes_struct" => Get(fields, "bytes") = BytesV(payload)
           /\ op = "tstring_struct" =>
                /\ Get(fields, "_value") = BytesV(payload)
                /\ (\A i \in 1..length : payload[i] < 128)
                      => Get(fields, "string") = TextV(payload)

C8_Witness ==
    /\ Returned("tstring_struct")
    /\ outcome.raised = ""
    /\ data[1] = 254
    /\ outcome.tell = 260
    /\ Len(Get(outcome.pblob.s, "string").w) = 254

(* complete encodings of the schemas that have flag-gated fields *)
FlagGated == EncChannelForbidden \cup EncMessageService \cup EncMessageOld5 \cup EncMessage

(* C9: for a schema with flag-gated fields and any flags word, the decode
   succeeds, each gated field is present exactly when the bit of its flag is
   set in the word, and a field whose bit is clear takes no bytes, so that the
   decode ends where the encoding ends *)
C9_GatedFieldsFollowTheFlags ==
    (Returned("parse_blob") /\ data \in FlagGated)
    => LET subcons == Method(tdss_callbacks[Leading][1]).subcons
           enum == subcons[CHOOSE j \in 1..Len(subcons) : subcons[j].k = "FlagsEnum"]
           word == WordAt(data, 4)
           fields == outcome.pblob.s
       IN  /\ outcome.raised = ""
           /\ outcome.tell = Len(data)
           /\ Has(fields, "UNPARSED") => Get(fields, "UNPARSED") = BytesV(<<>>)
           /\ \A i \in {j \in 1..Len(subcons) : subcons[j].k = "If"} :
                 \E f \in 1..Len(enum.flags) :
                     /\ enum.flags[f][1] = subcons[i].flag
                     /\ (Get(fields, subcons[i].name) # NoneV)
                           <=> MaskSet(word, enum.flags[f][2])

(* C10: decoding a byte sequence again on the same instance, whatever was
   decoded in between, leaves the same outcome: the same return value or
   exception, the same diagnostics, the same table *)
C10_SameBytesSameOutcome ==
    (Returned("parse_blob") /\ first.set /\ data = first.data)
    => outcome = first.outcome

C10_Witness ==
    /\ Returned("parse_blob")
    /\ first.set
    /\ others
    /\ data = first.data
    /\ outcome.pblob.t = "struct"

(* C11: the boolean codec reads one 32-bit word: it consumes exactly 4 bytes
   and gives false for 0xBC799737, true for 0x997275B5 and "ERROR" for every
   other word; the word read never makes it fail *)
C11_BoolBySignature ==
    (Returned("tbool_struct") /\ Len(data) >= 4)
    => /\ outcome.raised = ""
       /\ outcome.tell = 4
       /\ Get(outcome.pblob.s, "value") =
            (IF WordAt(data, 0) = W(\hBC, \h79, \h97, \h37) THEN StrV("false")
             ELSE IF WordAt(data, 0) = W(\h99, \h72, \h75, \hB5) THEN StrV("true")
             ELSE StrV("ERROR"))

C11_Witness ==
    /\ Returned("tbool_struct")
    /\ Len(data) > 4
    /\ WordAt(data, 0) = W(\h99, \h72, \h75, \hB4)
    /\ Get(outcome.pblob.s, "value") = StrV("ERROR")

(* complete encodings that carry a TL string whose bytes are not UTF-8 in
   front of other fields *)
UndecodableInside ==
    {e \in EncBotInfo \cup EncChannelForbidden :
        \E o \in 0..(Len(e) - 3) : Slice(e, o, 3) = <<2>> \o SNotUtf8}

(* C12: a TL string whose bytes are not valid UTF-8 keeps the raw bytes as its
   value, emits a warning-level diagnostic, moves the cursor as a valid string
   of that length would, and does not stop the decode of the fields after it *)
C12_UndecodableStringIsKept ==
    /\ (/\ Returned("tstring_struct")
        /\ outcome.raised = ""
        /\ ~IsUtf8(Get(outcome.pblob.s, "_value").w))
       => /\ Get(outcome.pblob.s, "string") = Get(outcome.pblob.s, "_value")
          /\ outcome.tell =
                (IF data[1] < 254 THEN 1 ELSE 4) + Len(Get(outcome.pblob.s, "_value").w)
                + AlignTo4((IF data[1] < 254 THEN 1 ELSE 0)
                           + Len(Get(outcome.pblob.s, "_value").w))
          /\ \E i \in Logged("warning", "unable to decode string") :
                outcome.log[i].bytes = Get(outcome.pblob.s, "_value").w
    /\ (Returned("parse_blob") /\ data \in UndecodableInside)
       => /\ outcome.raised = ""
          /\ outcome.tell = Len(data)
          /\ Logged("warning", "unable to decode string") # {}

(* C13: signature 0x9BA2D800 and a 4-byte little-endian id decode as
   chat_empty with that id and the constant title "DELETED"; the title takes
   no input, so exactly 8 bytes are consumed, whatever follows them *)
C13_ChatEmpty ==
    (/\ Returned("parse_blob")
     /\ Len(data) >= 8
     /\ WordAt(data, 0) = <<0, 216, 162, 155>>)
    => /\ outcome.raised = ""
       /\ Get(outcome.pblob.s, "sname") = StrV("chat_empty")
       /\ Get(outcome.pblob.s, "id") = IntV(WordAt(data, 4))
       /\ Get(outcome.pblob.s, "title") = StrV("DELETED")
       /\ outcome.tell = 8
       /\ Len(data) = 8 => outcome.log = <<>>

C13_Witness ==
    /\ Returned("parse_blob")
    /\ data = <<0, 216, 162, 155, 7, 0, 0, 0>>
    /\ Get(outcome.pblob.s, "id") = IntV(<<7, 0, 0, 0>>)
    /\ Get(outcome.pblob.s, "title") = StrV("DELETED")
    /\ outcome.tell = 8

(* complete encodings, with nothing after them, of schemas without a tail
   field whose decode returns *)
ExactNoTail ==
    EncUserEmpty \cup EncChatEmpty \cup EncChannelForbidden \cup EncBotInfo
    \cup EncMessageService \cup EncMessageEmpty

(* C14: when a schema without a tail field consumes the whole blob,
   parse_blob returns the record with neither a warning nor a
   byte-count-mismatch error; signature 0x200250BA and a UInt32LE id decode as
   user_empty with that id, 8 bytes consumed *)
C14_ExactLengthIsSilent ==
    /\ (/\ Returned("parse_blob")
        /\ outcome.raised = ""
        /\ outcome.pblob.t = "struct"
        /\ ~Has(outcome.pblob.s, "UNPARSED")
        /\ outcome.tell = Len(data))
       => \A i \in 1..Len(outcome.log) :
             /\ outcome.log[i].level # "warning"
             /\ outcome.log[i].msg # "Not all data parsed"
    /\ (Returned("parse_blob") /\ data \in ExactNoTail)
       => /\ outcome.raised = ""
          /\ outcome.pblob.t = "struct"
          /\ outcome.tell = Len(data)
    /\ (/\ Returned("parse_blob")
        /\ Len(data) = 8
        /\ WordAt(data, 0) = <<186, 80, 2, 32>>)
       => /\ outcome.raised = ""
          /\ Get(outcome.pblob.s, "sname") = StrV("user_empty")
          /\ Get(outcome.pblob.s, "id") = IntV(WordAt(data, 4))
          /\ outcome.tell = 8
          /\ outcome.log = <<>>

C14_Witness ==
    /\ Returned("parse_blob")
    /\ data = <<186, 80, 2, 32, 42, 0, 0, 0>>
    /\ Get(outcome.pblob.s, "id") = IntV(<<42, 0, 0, 0>>)
    /\ outcome.tell = 8
    /\ outcome.log = <<>>

(* C15: the sname of the record parse_blob returns is the human-readable name
   the table entry of the blob's signature holds *)
C15_SnameIsTableName ==
    (Returned("parse_blob") /\ outcome.raised = "" /\ outcome.pblob.t = "struct")
    => Get(outcome.pblob.s, "sname") = StrV(tdss_callbacks[Leading][2])

(* C16: every table entry is a triple, so parse_blob resolves the entry of any
   listed signature into decoder, name and beautify flag without failing *)
C16_EveryEntryIsATriple ==
    (Returned("parse_blob") /\ Leading \in DOMAIN tdss_callbacks)
    => /\ Len(tdss_callbacks[Leading]) = 3
       /\ outcome.raised # "ValueError"

(* C17: while one blob is decoded, the stream position seen after each decoded
   field is never smaller than the position seen before it, and positions never
   decrease from one observation to the next; the only rewind is the one inside
   a peek, which leaves the stream at the position the peek started from *)
C17_CursorNeverGoesBack ==
    Returned("parse_blob")
    => /\ \A j \in 1..(Len(outcome.tells) - 1) :
              outcome.tells[j + 1].pos >= outcome.tells[j].pos
       /\ \A j \in 1..Len(outcome.tells) :
              (outcome.tells[j].k = "Peek" /\ outcome.tells[j].at = "before")
              => /\ j < Len(outcome.tells)
                 /\ outcome.tells[j + 1].at = "after"
                 /\ outcome.tells[j + 1].name = outcome.tells[j].name
                 /\ outcome.tells[j + 1].pos = outcome.tells[j].pos
       /\ (outcome.tells # <<>>) => outcome.tell >= outcome.tells[Len(outcome.tells)].pos

(* a slot inside a container was decoded: its peek sat past the start of the
   stream and the variant behind it consumed bytes *)
C17_Witness ==
    /\ Returned("parse_blob")
    /\ outcome.raised = ""
    /\ \E j \in 1..(Len(outcome.tells) - 1) :
          /\ outcome.tells[j].k = "Peek"
          /\ outcome.tells[j].at = "before"
          /\ outcome.tells[j].pos > 0
          /\ outcome.tell > outcome.tells[j].pos

(* C18: whenever a slot dispatches to a variant of its map, the variant begins
   at the peeked signature and consumes it, once, through its own constant
   signature field; no dispatched variant leaves the peeked signature in the
   stream *)
C18_VariantConsumesThePeekedSignature ==
    Returned("parse_blob")
    => \A j \in 1..(Len(outcome.tells) - 1) :
          (/\ outcome.tells[j].k = "Switch"
           /\ outcome.tells[j].at = "before"
           /\ outcome.tells[j + 1].at = "before")
          => /\ j + 4 <= Len(outcome.tells)
             /\ outcome.tells[j + 1].name = "sname"
             /\ outcome.tells[j + 3].k = "Const"
             /\ outcome.tells[j + 3].name = "signature"
             /\ outcome.tells[j + 3].at = "before"
             /\ outcome.tells[j + 3].pos = outcome.tells[j].pos
             /\ outcome.tells[j + 4].at = "after"
             /\ outcome.tells[j + 4].pos = outcome.tells[j].pos + 4

(* C19: for every table entry with a decoder, the decoder's constant signature
   field equals the entry's key, so a blob that opens with a listed key has
   that key consumed by the signature field of the decoder the table names *)
C19_DecoderSignatureIsTheKey ==
    (/\ Returned("parse_blob")
     /\ Leading \in DOMAIN tdss_callbacks
     /\ Len(tdss_callbacks[Leading]) = 3
     /\ tdss_callbacks[Leading][1] # "None")
    => \E j \in 1..(Len(outcome.tells) - 1) :
          /\ outcome.tells[j].k = "Const"
          /\ outcome.tells[j].name = "signature"
          /\ outcome.tells[j].at = "before"
          /\ outcome.tells[j].pos = 0
          /\ outcome.tells[j + 1].at = "after"
          /\ outcome.tells[j + 1].pos = 4

(* the slots of the model and the dispatch map of a slot *)
Slots ==
    {peer_structures("v"), message_action_structures("v"),
     message_entity_structures("v"), message_fwd_header_structures("v"),
     message_media_structures("v"), reply_markup_structures("v"),
     file_location_structures("v"), chat_photo_structures("v"),
     input_sticker_set_structures("v"), user_profile_photo_structures("v"),
     user_status_structures("v"), rich_text_structures("v"),
     page_block_structures("v")}
DispatchMap(slot) == slot.subcons[2].cases

(* the observation that closes the field opened at observation j, if any *)
Closes(tells, j, i) ==
    /\ i > j
    /\ Cardinality({n \in j..i : tells[n].at = "before"})
         = Cardinality({n \in j..i : tells[n].at = "after"})
    /\ \A m \in (j + 1)..(i - 1) :
          Cardinality({n \in j..m : tells[n].at = "before"})
            # Cardinality({n \in j..m : tells[n].at = "after"})

(* C20: every key of a slot's dispatch map is a key of the table and maps there
   to the same decoder, so an object decoded in its slot (the peeked signature
   and the bytes its variant consumed) decodes to the same record when those
   bytes are given to parse_blob as a blob of their own *)
C20_NestedAsTopLevel ==
    /\ \A slot \in Slots : \A key \in DOMAIN DispatchMap(slot) :
          /\ key \in DOMAIN tdss_callbacks
          /\ tdss_callbacks[key][1] = DispatchMap(slot)[key].ref
    /\ Returned("parse_blob")
       => \A j \in 1..(Len(outcome.tells) - 1) :
             (/\ outcome.tells[j].k = "Switch"
              /\ outcome.tells[j].at = "before"
              /\ outcome.tells[j + 1].at = "before")
             => \A i \in (j + 1)..Len(outcome.tells) :
                   Closes(outcome.tells, j, i)
                   => LET Alone(p, n) == parse_blob(callbacks, Slice(data, p, n))
                      IN  /\ Alone(outcome.tells[j].pos,
                                   IF outcome.tells[i].pos - outcome.tells[j].pos > 4
                                   THEN outcome.tells[i].pos - outcome.tells[j].pos
                                   ELSE 4).raised = ""
                          /\ Alone(outcome.tells[j].pos,
                                   IF outcome.tells[i].pos - outcome.tells[j].pos > 4
                                   THEN outcome.tells[i].pos - outcome.tells[j].pos
                                   ELSE 4).pblob = outcome.tells[i].val

(* the dispatch-map display of a slot *)
Display(slot) == slot.subcons[2].display

Unique(display) ==
    \A i \in DOMAIN display : \A j \in DOMAIN display :
        display[i][1] = display[j][1] => i = j

(* C21: no signature is written twice in one map: within every slot dispatch
   map and within the table each key occurs once, so the instance's table holds
   under every written signature the entry written with it and every slot
   dispatches every written signature to the decoder written with it *)
C21_NoSignatureIsShadowed ==
    /\ Unique(tdss_callbacks_display)
    /\ \A i \in DOMAIN tdss_callbacks_display :
          /\ tdss_callbacks_display[i][1] \in DOMAIN callbacks
          /\ callbacks[tdss_callbacks_display[i][1]] = tdss_callbacks_display[i][2]
    /\ \A slot \in Slots :
          /\ Unique(Display(slot))
          /\ \A i \in DOMAIN Display(slot) :
                DispatchMap(slot)[Display(slot)[i][1]] = Display(slot)[i][2]

(* a blob was resolved through the entry written for its signature, and a
   media slot inside it dispatched a written key *)
C21_Witness ==
    /\ Returned("parse_blob")
    /\ outcome.raised = ""
    /\ \E i \in DOMAIN tdss_callbacks_display :
          /\ tdss_callbacks_display[i][1] = Leading
          /\ tdss_callbacks_display[i][2][1] = "message_struct"
    /\ \E j \in 1..(Len(outcome.tells) - 1) :
          /\ outcome.tells[j].k = "Switch"
          /\ outcome.tells[j].name = "media"
          /\ outcome.tells[j + 1].at = "before"

NoReentry ==
    \A i \in DOMAIN stack : \A j \in DOMAIN stack :
        stack[i].ref = stack[j].ref => i = j

(* C22: building the decoder of any schema terminates: no constructor is
   entered while it is still being built, so the eager references form no
   cycle, and the build returns; the cycles between slots go through lazily
   bound dispatch-map entries, which building does not follow *)
C22_BuildTerminates == [](NoReentry /\ Len(stack) < MaxStack) /\ <>(pc = "returned")

(* page_block_cover has been built: it called the page-block slot builder,
   whose dispatch map binds page_block_cover itself, lazily *)
C22_Witness ==
    /\ op = "build"
    /\ pc = "returned"
    /\ stack[1].ref = "page_block_cover_struct"
    /\ "page_block_structures" \in {EagerCalls("page_block_cover_struct")[i] :
                                       i \in DOMAIN EagerCalls("page_block_cover_struct")}
    /\ "page_block_cover_struct" \in LazyRefs(page_block_structures("cover"))

(* the flag names a decoder declares and the flag names its conditional fields
   test *)
DeclaredFlags(subcons) ==
    UNION {{subcons[j].flags[f][1] : f \in DOMAIN subcons[j].flags}
              : j \in {n \in DOMAIN subcons : subcons[n].k = "FlagsEnum"}}
TestedFlags(subcons) == {subcons[j].flag : j \in {n \in DOMAIN subcons : subcons[n].k = "If"}}

(* C23: every flag a conditional field tests is declared by the flags field
   decoded before it in the same schema, so no decode fails on an undefined
   flag, whatever the flags word *)
C23_TestedFlagsAreDeclared ==
    (/\ Returned("parse_blob")
     /\ Leading \in DOMAIN tdss_callbacks
     /\ Len(tdss_callbacks[Leading]) = 3
     /\ tdss_callbacks[Leading][1] # "None")
    => /\ outcome.raised # "KeyError"
       /\ TestedFlags(Method(tdss_callbacks[Leading][1]).subcons)
             \subseteq DeclaredFlags(Method(tdss_callbacks[Leading][1]).subcons)

(* the observations of the elements of the array opened at observation j and
   closed at observation i: the fields opened directly inside it *)
ElementsOf(tells, j, i) ==
    {n \in (j + 1)..(i - 1) :
        /\ tells[n].at = "before"
        /\ Cardinality({q \in j..(n - 1) : tells[q].at = "before"})
             = 1 + Cardinality({q \in j..(n - 1) : tells[q].at = "after"})}

(* C24: a vector with a correct marker decodes to exactly count elements, one
   after the other in input order; a count of 0 gives an empty array and takes
   the 8 bytes of marker and count; and no vector is returned when the input
   ends before all of its count elements: every element of a returned array
   began inside the input *)
C24_VectorHasCountElements ==
    Returned("parse_blob")
    => \A j \in 2..Len(outcome.tells) : \A i \in (j + 1)..Len(outcome.tells) :
          (/\ outcome.tells[j].k = "Array"
           /\ outcome.tells[j].at = "before"
           /\ Closes(outcome.tells, j, i))
          => LET count == WordToNat(outcome.tells[j - 1].val.w)
                 elements == ElementsOf(outcome.tells, j, i)
             IN  /\ outcome.tells[i].val.t = "array"
                 /\ Len(outcome.tells[i].val.s) = count
                 /\ Cardinality(elements) = count
                 /\ \A n \in elements :
                       /\ outcome.tells[n].pos = outcome.tells[n - 1].pos
                       /\ outcome.tells[n].pos < Len(data)
                 /\ count = 0 => /\ i = j + 1
                                 /\ outcome.tells[i].pos = outcome.tells[j - 2].pos + 4

(* C25: on every buffer the TL bytes codec and the TL string codec fail on
   the same inputs, with the same error at the same place, and consume the
   same number of bytes; the bytes codec gives the payload as it is, the string
   codec its text *)
C25_BytesAndStringAgree ==
    /\ Returned("tstring_struct")
       => LET Same(b) ==
                  /\ b.raised = outcome.raised
                  /\ b.tell = outcome.tell
                  /\ outcome.raised = ""
                     => /\ Get(b.pblob.s, "bytes") = Get(outcome.pblob.s, "_value")
                        /\ Get(b.pblob.s, "len") = Get(outcome.pblob.s, "_len")
          IN  Same(ParseOnly(tbytes_struct(data, 0, <<>>), callbacks))
    /\ Returned("tbytes_struct")
       => LET Same(s) ==
                  /\ s.raised = outcome.raised
                  /\ s.tell = outcome.tell
                  /\ outcome.raised = ""
                     => Get(s.pblob.s, "_value") = Get(outcome.pblob.s, "bytes")
          IN  Same(ParseOnly(tstring_struct(data, 0, <<>>), callbacks))

(* the string codec returned on a payload that is not UTF-8, with padding *)
C25_Witness ==
    /\ Returned("tstring_struct")
    /\ outcome.raised = ""
    /\ Get(outcome.pblob.s, "string").t = "bytes"
    /\ outcome.tell > 1 + Len(Get(outcome.pblob.s, "_value").w)
    /\ ParseOnly(tbytes_struct(data, 0, <<>>), callbacks).tell = outcome.tell

(* C26: after every successfully decoded field, other than an UNPARSED tail,
   the stream position is a multiple of 4 from the start of the blob; so is
   the position a string, bytes or boolean codec returns at *)
C26_FieldsEndOnAWordBoundary ==
    /\ Returned("parse_blob")
       => \A j \in 1..Len(outcome.tells) :
             (outcome.tells[j].at = "after" /\ outcome.tells[j].name # "UNPARSED")
             => outcome.tells[j].pos % 4 = 0
    /\ (/\ op \in {"tstring_struct", "tbytes_struct", "tbool_struct"}
        /\ pc = "returned"
        /\ outcome.raised = "")
       => outcome.tell % 4 = 0

(* a string of five bytes was decoded as a field of a blob: six bytes of
   prefix and payload, and the field ended two bytes further *)
C26_Witness ==
    /\ Returned("parse_blob")
    /\ outcome.raised = ""
    /\ \E j \in 2..Len(outcome.tells) :
          /\ outcome.tells[j].k = "tstring_struct"
          /\ outcome.tells[j].at = "after"
          /\ Get(outcome.tells[j].val.s, "_len") = NatV(5)
          /\ outcome.tells[j].pos = outcome.tells[j - 1].pos + 8

(* One pass over the observations of a decode: the positions of the slots
   that have dispatched to a variant and are still open, the deepest such
   nesting, and whether each dispatched slot began at least 4 bytes after the
   dispatched slot around it *)
RECURSIVE SlotNesting(_, _, _, _, _)
SlotNesting(tells, n, open, deepest, apart) ==
    IF n > Len(tells) THEN [deepest |-> deepest, apart |-> apart]
    ELSE IF tells[n].at = "after"
         THEN SlotNesting(tells, n + 1, SubSeq(open, 1, Len(open) - 1), deepest, apart)
    ELSE IF tells[n].k = "Switch" /\ n < Len(tells) /\ tells[n + 1].at = "before"
         THEN SlotNesting(tells, n + 1, Append(open, tells[n].pos),
                          IF 1 + Cardinality({q \in DOMAIN open : open[q] >= 0}) > deepest
                          THEN 1 + Cardinality({q \in DOMAIN open : open[q] >= 0})
                          ELSE deepest,
                          apart /\ \A q \in DOMAIN open :
                                       open[q] >= 0 => tells[n].pos >= open[q] + 4)
    ELSE SlotNesting(tells, n + 1, Append(open, -1), deepest, apart)

(* C27: decoding a blob ends, inside the blob, and the slots dispatched one
   inside the other are never more than len(blob)/4 deep: a variant reached
   through a dispatch map has consumed its 4-byte signature before a slot
   inside it dispatches again *)
C27_SlotDepthIsBounded ==
    /\ (op = "parse_blob" /\ pc = "called") => parse_blob(callbacks, data).tell <= Len(data)
    /\ Returned("parse_blob")
       => /\ SlotNesting(outcome.tells, 1, <<>>, 0, TRUE).apart
          /\ 4 * SlotNesting(outcome.tells, 1, <<>>, 0, TRUE).deepest <= Len(data)

(* a page block was decoded four slots deep: a cover in a cover, its title and
   the bold text of the title *)
C27_Witness ==
    /\ Returned("parse_blob")
    /\ outcome.raised = ""
    /\ SlotNesting(outcome.tells, 1, <<>>, 0, TRUE).deepest >= 4
    /\ Get(outcome.pblob.s, "sname") = StrV("page_block_cover")

(* C28: a message_empty blob that holds only the signature 0x83E5DE54 and the
   4-byte id decodes without error, consumes its 8 bytes and has no to_id; a
   blob in which a peer follows the id decodes the peer as to_id *)
C28_EmptyMessageWithoutPeer ==
    (Returned("parse_blob") /\ Take(data, 4) = SigOf("message_empty_struct"))
    => /\ Len(data) = 8
          => /\ outcome.raised = ""
             /\ outcome.tell = 8
             /\ Get(outcome.pblob.s, "to_id") = NoneV
       /\ (Len(data) = 16 /\ Rest(data, 8) \in Peers)
          => /\ outcome.raised = ""
             /\ outcome.tell = Len(data)
             /\ Get(outcome.pblob.s, "to_id").t = "struct"
             /\ Get(Get(Get(outcome.pblob.s, "to_id").s, "to_id").s, "sname")
                    \in {StrV("peer_user"), StrV("peer_channel")}

(* an empty message of 8 bytes was decoded *)
C28_Witness ==
    /\ Returned("parse_blob")
    /\ data = SigOf("message_empty_struct") \o U32(7)
    /\ outcome.raised = ""
    /\ Get(outcome.pblob.s, "id") = IntV(U32(7))

(* the peer decoded under to_id, and the negative of a decoded integer *)
PeerOf(pblob) == Get(Get(pblob.s, "to_id").s, "to_id")
Negated(val) == [val EXCEPT !.c = "-"]

(* C29: a well-formed message_service_layer48 or message_layer68 decodes
   without error; its from_id_adjusted consumes no input, is absent unless
   from_id is 0, and when from_id is 0 it is the user_id of to_id if that is
   not zero and the negated channel_id of to_id otherwise *)
C29_FromIdAdjustedIsDerived ==
    (Returned("parse_blob") /\ data \in EncAdjusted)
    => /\ outcome.raised = ""
       /\ \A i \in DOMAIN outcome.tells :
              (outcome.tells[i].name = "from_id_adjusted" /\ outcome.tells[i].at = "after")
              => outcome.tells[i].pos = outcome.tells[i - 1].pos
       /\ Get(outcome.pblob.s, "from_id") # IntV(ZeroWord)
              => Get(outcome.pblob.s, "from_id_adjusted") = NoneV
       /\ Get(outcome.pblob.s, "from_id") = IntV(ZeroWord)
              => Get(outcome.pblob.s, "from_id_adjusted")
                     = IF Has(PeerOf(outcome.pblob).s, "user_id")
                          /\ Get(PeerOf(outcome.pblob).s, "user_id") # IntV(ZeroWord)
                       THEN Get(PeerOf(outcome.pblob).s, "user_id")
                       ELSE Negated(Get(PeerOf(outcome.pblob).s, "channel_id"))

(* C30: parse_blob on a blob of fewer than 4 bytes, the empty blob among
   them, raises nothing and returns no record: the short input is not
   zero-extended into the signature of a table entry *)
C30_ShortBlobIsNotResolved ==
    (Returned("parse_blob") /\ Len(data) < 4)
    => /\ outcome.raised = ""
       /\ outcome.pblob = NoneV
       /\ from_bytes_little(data) \notin DOMAIN callbacks

====
